---- MODULE Spec2Model ----
(***************************************************************************)
(* Velero backup / restore / schedule handlers of the dashboard API:       *)
(* the list pipeline (cells, filter, sort, paginate, projection) and the   *)
(* CRD-path operations (CRD lookup, REST path construction, response       *)
(* parsing).                                                               *)
(*                                                                         *)
(* Strings whose content matters (names, phases, filter values) are        *)
(* sequences of byte codes, so that substring tests and the byte-wise      *)
(* order of Go strings are computed and not assumed.                       *)
(***************************************************************************)
EXTENDS Integers, Sequences, FiniteSets, TLC

\* ------------------------------------------------------------------ bounds

\* Longest list of backups handed to a list operation.
MaxItems == 3
\* Highest page index a caller asks for.
MaxPage == 5
\* Creation timestamps of the records are 1..MaxStamp; every reading of the
\* clock taken while a request is served is later than all of them.
MaxStamp == 2

\* ----------------------------------------------------------------- strings

sEmpty == <<>>
sA == <<97>>
sB == <<98>>
sE == <<101>>
sX == <<120>>
sVelero == <<118>>
sFail == <<70, 97, 105, 108>>
sFailed == <<70, 97, 105, 108, 101, 100>>
sCompleted == <<67, 111, 109, 112, 108, 101, 116, 101, 100>>
sInProgress == <<73, 110, 80, 114, 111, 103, 114, 101, 115, 115>>
sNew == <<78, 101, 119>>
sUnknown == <<85, 110, 107, 110, 111, 119, 110>>

\* ----------------------------------------------- unstructured backup records

\* A field of an unstructured object as unstructured.NestedString sees it:
\* found with a string value, or not found (absent, or not a string).
Found(v) == [found |-> TRUE, val |-> v]
NotFound == [found |-> FALSE, val |-> sEmpty]

\* The text of metadata.creationTimestamp: either an RFC 3339 text of the
\* instant unix, or a text time.Parse rejects.
Stamp(n) == [found |-> TRUE, val |-> [rfc3339 |-> TRUE, unix |-> n]]
BadStamp == [found |-> TRUE, val |-> [rfc3339 |-> FALSE, unix |-> 0]]
NoStamp == [found |-> FALSE, val |-> [rfc3339 |-> FALSE, unix |-> 0]]

\* time.Parse(time.RFC3339, text)
ParseTime(text) == [ok |-> text.rfc3339, t |-> IF text.rfc3339 THEN text.unix ELSE 0]

Rec(uid, name, ns, created, phase, reason) ==
    [uid |-> uid, name |-> name, namespace |-> ns,
     creationTimestamp |-> created, phase |-> phase, failureReason |-> reason]

\* The records the cluster may return.  B2 and B3 agree on name and phase;
\* B3 has no creation timestamp and B4 has one that does not parse; B4 has
\* neither name nor phase.
B1 == Rec(1, Found(sB), Found(sVelero), Stamp(2), Found(sCompleted), NotFound)
B2 == Rec(2, Found(sA), Found(sVelero), Stamp(1), Found(sFailed), Found(sX))
B3 == Rec(3, Found(sA), Found(sVelero), NoStamp, Found(sFailed), NotFound)
B4 == Rec(4, NotFound, NotFound, BadStamp, NotFound, NotFound)

Universe == {B1, B2, B3, B4}

\* The lists a List call of the cluster may return: every record at most once
\* (objects of one collection have distinct uids).
RECURSIVE ListsOfLen(_)
ListsOfLen(n) ==
    IF n = 0 THEN {<<>>}
    ELSE {Append(s, b) : s \in ListsOfLen(n - 1), b \in Universe}

Injective(s) == \A i, j \in 1..Len(s) : i # j => s[i].uid # s[j].uid

BackupLists == UNION {{s \in ListsOfLen(n) : Injective(s)} : n \in 0..MaxItems}

\* ------------------------------------------------------ comparable values

NameProperty == "name"
CreationTimestampProperty == "creationTimestamp"
NamespaceProperty == "namespace"
StatusProperty == "status"
LabelProperty == "label"

StdComparableString(s) == [kind |-> "string", s |-> s, t |-> 0]
StdComparableTime(t) == [kind |-> "time", s |-> sEmpty, t |-> t]
Nil == [kind |-> "nil", s |-> sEmpty, t |-> 0]

\* A cell is the record it wraps; clock is what time.Now() returns when the
\* cell is asked for a creation time it does not have, in the invocation the
\* cell was made for (0: the clock is not read).
Cell(obj, clock) == [type |-> "BackupCell", obj |-> obj, clock |-> clock]

\* The cell customresourcedefinition makes of an object of a CRD.
CustomResourceObject(obj) == [type |-> "CustomResourceObject", obj |-> obj, clock |-> 0]

\* GetProperty with the phase looked up under a path that is never there.
GetPropertyPhaseNeverFound(in, name) ==
    CASE name = NameProperty ->
           IF in.obj.name.found
           THEN StdComparableString(in.obj.name.val)
           ELSE StdComparableString(sEmpty)
      [] name = CreationTimestampProperty ->
           IF in.obj.creationTimestamp.found
                 /\ ParseTime(in.obj.creationTimestamp.val).ok
           THEN StdComparableTime(ParseTime(in.obj.creationTimestamp.val).t)
           ELSE StdComparableTime(MaxStamp + in.clock)
      [] name = NamespaceProperty ->
           IF in.obj.namespace.found
           THEN StdComparableString(in.obj.namespace.val)
           ELSE StdComparableString(sEmpty)
      [] name = StatusProperty -> StdComparableString(sUnknown)
      [] OTHER -> Nil

\* GetProperty answering a property it does not know with a string.
GetPropertyUnknownIsString(in, name) ==
    CASE name = NameProperty ->
           IF in.obj.name.found
           THEN StdComparableString(in.obj.name.val)
           ELSE StdComparableString(sEmpty)
      [] name = CreationTimestampProperty ->
           IF in.obj.creationTimestamp.found
                 /\ ParseTime(in.obj.creationTimestamp.val).ok
           THEN StdComparableTime(ParseTime(in.obj.creationTimestamp.val).t)
           ELSE StdComparableTime(MaxStamp + in.clock)
      [] name = NamespaceProperty ->
           IF in.obj.namespace.found
           THEN StdComparableString(in.obj.namespace.val)
           ELSE StdComparableString(sEmpty)
      [] name = StatusProperty ->
           IF in.obj.phase.found
           THEN StdComparableString(in.obj.phase.val)
           ELSE StdComparableString(sUnknown)
      [] OTHER -> StdComparableString(sX)

\* GetProperty without the Namespace case: the namespace falls to the default.
GetPropertyNamespaceUnknown(in, name) ==
    CASE name = NameProperty ->
           IF in.obj.name.found
           THEN StdComparableString(in.obj.name.val)
           ELSE StdComparableString(sEmpty)
      [] name = CreationTimestampProperty ->
           IF in.obj.creationTimestamp.found
                 /\ ParseTime(in.obj.creationTimestamp.val).ok
           THEN StdComparableTime(ParseTime(in.obj.creationTimestamp.val).t)
           ELSE StdComparableTime(MaxStamp + in.clock)
      [] name = StatusProperty ->
           IF in.obj.phase.found
           THEN StdComparableString(in.obj.phase.val)
           ELSE StdComparableString(sUnknown)
      [] OTHER -> Nil

\* BackupCell.GetProperty
GetProperty(in, name) ==
    CASE name = NameProperty ->
           IF in.obj.name.found
           THEN StdComparableString(in.obj.name.val)
           ELSE StdComparableString(sEmpty)
      [] name = CreationTimestampProperty ->
           IF in.obj.creationTimestamp.found
                 /\ ParseTime(in.obj.creationTimestamp.val).ok
           THEN StdComparableTime(ParseTime(in.obj.creationTimestamp.val).t)
           ELSE StdComparableTime(MaxStamp + in.clock)
      [] name = NamespaceProperty ->
           IF in.obj.namespace.found
           THEN StdComparableString(in.obj.namespace.val)
           ELSE StdComparableString(sEmpty)
      [] name = StatusProperty ->
           IF in.obj.phase.found
           THEN StdComparableString(in.obj.phase.val)
           ELSE StdComparableString(sUnknown)
      [] OTHER -> Nil

\* ------------------------------------------------- dataselect (the pipeline)

\* A query: filter is a sequence of [property, value], sort a sequence of
\* [property, ascending], pagination is [itemsPerPage, page], page from 1.
DataSelectQuery(f, s, ipp, page) ==
    [filter |-> f, sort |-> s, pagination |-> [itemsPerPage |-> ipp, page |-> page]]

\* strings.Contains(s, m)
IsSubstring(m, s) ==
    \E i \in 0..(Len(s) - Len(m)) : SubSeq(s, i + 1, i + Len(m)) = m

\* Byte-wise order of two strings: -1, 0 or 1.
RECURSIVE StrCompare(_, _)
StrCompare(a, b) ==
    IF a = <<>> THEN (IF b = <<>> THEN 0 ELSE -1)
    ELSE IF b = <<>> THEN 1
    ELSE IF Head(a) < Head(b) THEN -1
    ELSE IF Head(a) > Head(b) THEN 1
    ELSE StrCompare(Tail(a), Tail(b))

\* ComparableValue.Contains: a filter value is always a string; no value
\* (an unknown property) contains nothing.
Contains(v, match) ==
    /\ v.kind = "string"
    /\ IsSubstring(match, v.s)

\* ComparableValue.Compare, within one variant; no value on either side
\* compares equal (the key is skipped).
Compare(a, b) ==
    IF a.kind = "nil" \/ b.kind = "nil" THEN 0
    ELSE IF a.kind = "time"
         THEN (IF a.t < b.t THEN -1 ELSE IF a.t > b.t THEN 1 ELSE 0)
         ELSE StrCompare(a.s, b.s)

\* The cell of a custom resource object: the properties of its object meta.
CustomResourceObjectProperty(in, name) ==
    CASE name = NameProperty -> StdComparableString(in.obj.name.val)
      [] name = NamespaceProperty -> StdComparableString(in.obj.namespace.val)
      [] name = CreationTimestampProperty ->
           StdComparableTime(ParseTime(in.obj.creationTimestamp.val).t)
      [] name = StatusProperty -> StdComparableString(in.obj.phase.val)
      [] OTHER -> Nil

\* DataCell.GetProperty: the call goes to the implementation of the cell's
\* dynamic type.
DataCellProperty(c, name) ==
    IF c.type = "BackupCell" THEN GetProperty(c, name)
    ELSE CustomResourceObjectProperty(c, name)

\* An item passes when every pair of the filter matches.
Passes(c, fq) ==
    \A k \in 1..Len(fq) : Contains(DataCellProperty(c, fq[k].property), fq[k].value)

Filter(cells, fq) == SelectSeq(cells, LAMBDA c : Passes(c, fq))

\* The multi-key order: the first key on which a and b differ decides.
RECURSIVE Less(_, _, _)
Less(a, b, sq) ==
    IF sq = <<>> THEN FALSE
    ELSE LET cmp == Compare(DataCellProperty(a, Head(sq).property), DataCellProperty(b, Head(sq).property))
         IN  IF cmp = 0 THEN Less(a, b, Tail(sq))
             ELSE IF Head(sq).ascending THEN cmp = -1 ELSE cmp = 1

\* Stable insertion: x goes before the first element it is less than.
RECURSIVE Insert(_, _, _)
Insert(x, s, sq) ==
    IF s = <<>> THEN <<x>>
    ELSE IF Less(x, Head(s), sq) THEN <<x>> \o s
    ELSE <<Head(s)>> \o Insert(x, Tail(s), sq)

RECURSIVE SortFrom(_, _, _)
SortFrom(done, rest, sq) ==
    IF rest = <<>> THEN done
    ELSE SortFrom(Insert(Head(rest), done, sq), Tail(rest), sq)

Sort(cells, sq) == SortFrom(<<>>, cells, sq)

Min(a, b) == IF a < b THEN a ELSE b

Paginate(cells, pq) ==
    IF pq.itemsPerPage <= 0 THEN cells
    ELSE LET start == (pq.page - 1) * pq.itemsPerPage
             end == Min(start + pq.itemsPerPage, Len(cells))
         IN  IF start >= Len(cells) THEN <<>> ELSE SubSeq(cells, start + 1, end)

\* Select: filter, then sort, then paginate; the total is taken after the
\* filter.
Select(cells, dsQuery) ==
    LET filtered == Filter(cells, dsQuery.filter)
    IN  [cells |-> Paginate(Sort(filtered, dsQuery.sort), dsQuery.pagination),
         total |-> Len(filtered)]

GenericDataSelectWithFilter(cells, dsQuery) == Select(cells, dsQuery)

\* ---------------------------------------------------- backup list conversion

\* ToCells: one cell per record, in order.  now[i] is the clock reading of
\* the i-th cell.
ToCells(std, now) == [i \in 1..Len(std) |-> Cell(std[i], now[i])]

\* FromCells ranging over a slice made with length 0: nothing is copied.
FromCellsNothingCopied(cells) == <<>>

\* FromCells copying the first cell into every place.
FromCellsFirstRepeated(cells) == [i \in 1..Len(cells) |-> cells[1].obj]

\* FromCells: the records of the cells, in order.
FromCells(cells) == [i \in 1..Len(cells) |-> cells[i].obj]

BackupStatusNew == "New"
BackupStatusInProgress == "InProgress"
BackupStatusCompleted == "Completed"
BackupStatusFailed == "Failed"

\* The phase switch with a default branch that reports a failure.
PhaseStatusDefaultFailed(phase) ==
    CASE phase = sNew -> BackupStatusNew
      [] phase = sInProgress -> BackupStatusInProgress
      [] phase = sCompleted -> BackupStatusCompleted
      [] phase = sFailed -> BackupStatusFailed
      [] OTHER -> BackupStatusFailed

PhaseStatus(phase) ==
    CASE phase = sNew -> BackupStatusNew
      [] phase = sInProgress -> BackupStatusInProgress
      [] phase = sCompleted -> BackupStatusCompleted
      [] phase = sFailed -> BackupStatusFailed
      [] OTHER -> BackupStatusNew

\* getBackupStatus with a default branch of its own: an unknown phase is
\* shown as Failed.
getBackupStatusDefaultFailed(item) ==
    [status |-> IF item.phase.found THEN PhaseStatusDefaultFailed(item.phase.val)
                ELSE BackupStatusNew,
     message |-> IF item.failureReason.found THEN item.failureReason.val ELSE sEmpty]

\* getBackupStatus (the status shown on a list item)
getBackupStatus(item) ==
    [status |-> IF item.phase.found THEN PhaseStatus(item.phase.val) ELSE BackupStatusNew,
     message |-> IF item.failureReason.found THEN item.failureReason.val ELSE sEmpty]

\* getBackupStatusFromSingle (the status the list summary counts)
getBackupStatusFromSingle(item) ==
    [status |-> IF item.phase.found THEN PhaseStatus(item.phase.val) ELSE BackupStatusNew,
     message |-> IF item.failureReason.found THEN item.failureReason.val ELSE sEmpty]

ZeroStatus == [running |-> 0, pending |-> 0, succeeded |-> 0, failed |-> 0]

\* The counting loop with a default branch that counts nothing.
RECURSIVE getBackupListStatusDefaultUncounted(_, _)
getBackupListStatusDefaultUncounted(info, backups) ==
    IF backups = <<>> THEN info
    ELSE LET st == getBackupStatusFromSingle(Head(backups)).status
             next == CASE st = BackupStatusFailed -> [info EXCEPT !.failed = @ + 1]
                       [] st = BackupStatusCompleted -> [info EXCEPT !.succeeded = @ + 1]
                       [] st = BackupStatusInProgress -> [info EXCEPT !.running = @ + 1]
                       [] OTHER -> info
         IN  getBackupListStatusDefaultUncounted(next, Tail(backups))

RECURSIVE getBackupListStatusFrom(_, _)
getBackupListStatusFrom(info, backups) ==
    IF backups = <<>> THEN info
    ELSE LET st == getBackupStatusFromSingle(Head(backups)).status
             next == CASE st = BackupStatusFailed -> [info EXCEPT !.failed = @ + 1]
                       [] st = BackupStatusCompleted -> [info EXCEPT !.succeeded = @ + 1]
                       [] st = BackupStatusInProgress -> [info EXCEPT !.running = @ + 1]
                       [] OTHER -> [info EXCEPT !.pending = @ + 1]
         IN  getBackupListStatusFrom(next, Tail(backups))

getBackupListStatus(backups) == getBackupListStatusFrom(ZeroStatus, backups)

\* toBackup: the presentation view of one record; fields the record lacks
\* stay at their zero values.
toBackup(item) ==
    [objectMeta |->
        [name |-> IF item.name.found THEN item.name.val ELSE sEmpty,
         namespace |-> IF item.namespace.found THEN item.namespace.val ELSE sEmpty,
         uid |-> item.uid,
         creationTimestamp |->
             IF item.creationTimestamp.found /\ ParseTime(item.creationTimestamp.val).ok
             THEN ParseTime(item.creationTimestamp.val).t ELSE 0],
     backupStatus |-> getBackupStatus(item)]

\* toBackupList reporting the length of the returned page as the total.
toBackupListTotalOfPage(backups, dsQuery, now) ==
    LET sel == GenericDataSelectWithFilter(ToCells(backups, now), dsQuery)
        page == FromCells(sel.cells)
    IN  [listMeta |-> [totalItems |-> Len(page)],
         backups |-> [i \in 1..Len(page) |-> toBackup(page[i])],
         status |-> getBackupListStatus(page),
         errors |-> <<>>]

\* toBackupList keeping the total it was initialised with, the length of
\* its input.
toBackupListTotalOfInput(backups, dsQuery, now) ==
    LET sel == GenericDataSelectWithFilter(ToCells(backups, now), dsQuery)
        page == FromCells(sel.cells)
    IN  [listMeta |-> [totalItems |-> Len(backups)],
         backups |-> [i \in 1..Len(page) |-> toBackup(page[i])],
         status |-> getBackupListStatus(page),
         errors |-> <<>>]

\* toBackupList converting its input instead of the selected cells.
toBackupListUnselected(backups, dsQuery, now) ==
    LET sel == GenericDataSelectWithFilter(ToCells(backups, now), dsQuery)
    IN  [listMeta |-> [totalItems |-> sel.total],
         backups |-> [i \in 1..Len(backups) |-> toBackup(backups[i])],
         status |-> getBackupListStatus(backups),
         errors |-> <<>>]

\* toBackupList putting each converted backup in front of the earlier ones.
toBackupListPrepending(backups, dsQuery, now) ==
    LET sel == GenericDataSelectWithFilter(ToCells(backups, now), dsQuery)
        page == FromCells(sel.cells)
    IN  [listMeta |-> [totalItems |-> sel.total],
         backups |-> [i \in 1..Len(page) |-> toBackup(page[Len(page) + 1 - i])],
         status |-> getBackupListStatus(page),
         errors |-> <<>>]

\* toBackupList summarising the records it was given instead of the page.
toBackupListStatusOfInput(backups, dsQuery, now) ==
    LET sel == GenericDataSelectWithFilter(ToCells(backups, now), dsQuery)
        page == FromCells(sel.cells)
    IN  [listMeta |-> [totalItems |-> sel.total],
         backups |-> [i \in 1..Len(page) |-> toBackup(page[i])],
         status |-> getBackupListStatus(backups),
         errors |-> <<>>]

\* toBackupList giving up the conversion at the first record without a name.
toBackupListStoppingAtMalformed(backups, dsQuery, now) ==
    LET sel == GenericDataSelectWithFilter(ToCells(backups, now), dsQuery)
        page == FromCells(sel.cells)
        bad == {i \in 1..Len(page) : ~page[i].name.found}
        upTo == IF bad = {} THEN Len(page)
                ELSE (CHOOSE i \in bad : \A k \in bad : i <= k) - 1
    IN  [listMeta |-> [totalItems |-> sel.total],
         backups |-> [i \in 1..upTo |-> toBackup(page[i])],
         status |-> getBackupListStatus(page),
         errors |-> <<>>]

toBackupList(backups, dsQuery, now) ==
    LET sel == GenericDataSelectWithFilter(ToCells(backups, now), dsQuery)
        page == FromCells(sel.cells)
    IN  [listMeta |-> [totalItems |-> sel.total],
         backups |-> [i \in 1..Len(page) |-> toBackup(page[i])],
         status |-> getBackupListStatus(page),
         errors |-> <<>>]

\* ------------------------------------------------------- CRD-pathway lists

\* customresourcedefinition.GetCustomResourceObjectList: the objects of the
\* CRD selected by the caller's query, with the total after filtering.
GetCustomResourceObjectList(objects, dsQuery) ==
    LET sel == Select([i \in 1..Len(objects) |-> CustomResourceObject(objects[i])],
                      dsQuery)
    IN  [listMeta |-> [totalItems |-> sel.total],
         items |-> [i \in 1..Len(sel.cells) |->
                      [objectMeta |-> [name |-> sel.cells[i].obj.name.val,
                                       namespace |-> sel.cells[i].obj.namespace.val,
                                       uid |-> sel.cells[i].obj.uid]]]]

\* The conversion loop shared by GetScheduleList, GetRestoreList and the
\* CRD-pathway GetBackupList: one item per item of the CRD list.
ConvertItems(crdList, kind) ==
    [i \in 1..Len(crdList.items) |->
        [objectMeta |-> [name |-> crdList.items[i].objectMeta.name,
                         namespace |-> crdList.items[i].objectMeta.namespace],
         typeMeta |-> [kind |-> kind]]]

\* GetScheduleList: items starts as a nil slice and stays nil when the CRD
\* list is empty.
ScheduleListOf(crdList) ==
    LET items == ConvertItems(crdList, "Schedule")
    IN  [listMeta |-> [totalItems |-> Len(items)],
         items |-> items, itemsNil |-> (Len(items) = 0)]

\* GetRestoreList
RestoreListOf(crdList) ==
    LET items == ConvertItems(crdList, "Restore")
    IN  [listMeta |-> [totalItems |-> Len(items)],
         items |-> items, itemsNil |-> FALSE]

\* GetBackupList (CRD pathway)
BackupListOf(crdList) ==
    LET items == ConvertItems(crdList, "Backup")
    IN  [listMeta |-> [totalItems |-> Len(items)],
         items |-> items, itemsNil |-> FALSE]

\* ------------------------------------------------------ CRD-path operations

NamespaceScoped == "Namespaced"
ClusterScoped == "Cluster"

\* The CRD the API-extensions client returns for a name <plural>.<group>.
CRD(plural, scope) ==
    [name |-> plural \o ".velero.io", group |-> "velero.io", plural |-> plural,
     version |-> "v1", scope |-> scope]

NoCRD == [name |-> "", group |-> "", plural |-> "", version |-> "", scope |-> ""]

\* crdv1.NewRESTClient: a client rooted at /apis/<group>/<version> of the CRD.
NewRESTClient(crd) == [pathPrefix |-> <<"apis", crd.group, crd.version>>]

\* rest.Request, as the chained calls build it.
Verb(restClient, verb) ==
    [verb |-> verb, pathPrefix |-> restClient.pathPrefix, namespace |-> "",
     namespaceSet |-> FALSE, resource |-> "", resourceName |-> "", err |-> FALSE]

NamespaceIfScoped(r, namespace, scoped) ==
    IF scoped THEN [r EXCEPT !.namespace = namespace, !.namespaceSet = TRUE] ELSE r

Resource(r, resource) == [r EXCEPT !.resource = resource]

\* Request.Name: an empty name is an error of the request, which is then
\* never sent.
Name(r, resourceName) ==
    IF resourceName = "" THEN [r EXCEPT !.err = TRUE]
    ELSE [r EXCEPT !.resourceName = resourceName]

\* Request.URL: the path, as a sequence of segments.
URLPath(r) ==
    r.pathPrefix
      \o (IF r.namespaceSet /\ r.namespace # "" THEN <<"namespaces", r.namespace>> ELSE <<>>)
      \o (IF r.resource # "" THEN <<r.resource>> ELSE <<>>)
      \o (IF r.resourceName # "" THEN <<r.resourceName>> ELSE <<>>)

\* CreateBackup's request without the namespace of the spec.
CreateBackupRequestNoNamespace(crd, spec) ==
    Resource(Verb(NewRESTClient(crd), "POST"), crd.plural)

\* getRawBackupData's request with the namespace set whatever the scope.
getRawBackupDataAlwaysScoped(crd, namespace, name) ==
    Name(Resource(NamespaceIfScoped(Verb(NewRESTClient(crd), "GET"), namespace, TRUE),
                  crd.plural), name)

\* The requests of the operations, from the CRD each one looked up.
CreateBackupRequest(crd, spec) ==
    Resource(NamespaceIfScoped(Verb(NewRESTClient(crd), "POST"), spec.namespace,
                               crd.scope = NamespaceScoped), crd.plural)

CreateRestoreRequest(crd, spec) ==
    Resource(NamespaceIfScoped(Verb(NewRESTClient(crd), "POST"), spec.namespace,
                               crd.scope = NamespaceScoped), crd.plural)

CreateScheduleRequest(crd, spec) ==
    Resource(NamespaceIfScoped(Verb(NewRESTClient(crd), "POST"), spec.namespace,
                               crd.scope = NamespaceScoped), crd.plural)

getRawBackupData(crd, namespace, name) ==
    Name(Resource(NamespaceIfScoped(Verb(NewRESTClient(crd), "GET"), namespace,
                                    crd.scope = NamespaceScoped), crd.plural), name)

getRawRestoreData(crd, namespace, name) ==
    Name(Resource(NamespaceIfScoped(Verb(NewRESTClient(crd), "GET"), namespace,
                                    crd.scope = NamespaceScoped), crd.plural), name)

getRawScheduleData(crd, namespace, name) ==
    Name(Resource(NamespaceIfScoped(Verb(NewRESTClient(crd), "GET"), namespace,
                                    crd.scope = NamespaceScoped), crd.plural), name)

DeleteScheduleRequest(crd, namespace, name) ==
    Name(Resource(NamespaceIfScoped(Verb(NewRESTClient(crd), "DELETE"), namespace,
                                    crd.scope = NamespaceScoped), crd.plural), name)

\* ---- the bodies of the Create requests

\* The fields of a BackupSpec, RestoreSpec or ScheduleSpec besides name and
\* namespace.  A list is a sequence of strings (nil and empty alike have
\* length 0); a label selector is a pointer: nil, or set to a selector that
\* may be empty.
NoSelector == [set |-> FALSE, matchLabels |-> <<>>]
EmptySelector == [set |-> TRUE, matchLabels |-> <<>>]
SomeSelector == [set |-> TRUE, matchLabels |-> <<"app">>]

SpecFields(inNs, exNs, inRes, exRes, sel, text) ==
    [includedNamespaces |-> inNs, excludedNamespaces |-> exNs,
     includedResources |-> inRes, excludedResources |-> exRes,
     labelSelector |-> sel, storageLocation |-> text, ttl |-> text,
     schedule |-> text, backupName |-> text]

PlainSpec == SpecFields(<<>>, <<>>, <<>>, <<>>, NoSelector, "")

\* The specs a caller may send: nothing filled in, everything filled in,
\* empty lists with an empty selector, one optional list alone.
CreateSpecs ==
    {PlainSpec,
     SpecFields(<<"ns1">>, <<"x">>, <<"pods">>, <<"jobs">>, SomeSelector, "t"),
     SpecFields(<<>>, <<>>, <<>>, <<>>, EmptySelector, ""),
     SpecFields(<<>>, <<"x">>, <<>>, <<>>, NoSelector, "t")}

NoKeys == [k \in {} |-> <<>>]

\* One optional key of a spec map: set when the condition of its if holds.
Optional(present, key, value) == IF present THEN key :> value ELSE NoKeys

\* The four optional fields all three Create functions add the same way.
OptionalFields(spec) ==
    Optional(Len(spec.excludedNamespaces) > 0, "excludedNamespaces", spec.excludedNamespaces)
      @@ Optional(Len(spec.includedResources) > 0, "includedResources", spec.includedResources)
      @@ Optional(Len(spec.excludedResources) > 0, "excludedResources", spec.excludedResources)
      @@ Optional(spec.labelSelector.set, "labelSelector", spec.labelSelector)

Object(kind, name, namespace, spec) ==
    [apiVersion |-> "velero.io/v1", kind |-> kind,
     metadata |-> [name |-> name, namespace |-> namespace], spec |-> spec]

\* CreateBackup's object with excludedNamespaces set whatever its length.
CreateBackupBodyAlwaysExcluding(name, namespace, spec) ==
    Object("Backup", name, namespace,
           ("includedNamespaces" :> spec.includedNamespaces)
             @@ ("storageLocation" :> spec.storageLocation)
             @@ ("ttl" :> spec.ttl)
             @@ ("excludedNamespaces" :> spec.excludedNamespaces)
             @@ OptionalFields(spec))

\* CreateBackup: the unstructured object that is marshalled into the body.
CreateBackupBody(name, namespace, spec) ==
    Object("Backup", name, namespace,
           ("includedNamespaces" :> spec.includedNamespaces)
             @@ ("storageLocation" :> spec.storageLocation)
             @@ ("ttl" :> spec.ttl)
             @@ OptionalFields(spec))

\* CreateRestore
CreateRestoreBody(name, namespace, spec) ==
    Object("Restore", name, namespace,
           ("backupName" :> spec.backupName)
             @@ Optional(Len(spec.includedNamespaces) > 0, "includedNamespaces",
                         spec.includedNamespaces)
             @@ OptionalFields(spec))

\* CreateSchedule: the optional fields go into spec.template.
CreateScheduleBody(name, namespace, spec) ==
    Object("Schedule", name, namespace,
           [schedule |-> spec.schedule,
            template |-> ("includedNamespaces" :> spec.includedNamespaces)
                           @@ ("storageLocation" :> spec.storageLocation)
                           @@ ("ttl" :> spec.ttl)
                           @@ OptionalFields(spec)])

NoBody == Object("", "", "", NoKeys)

\* The body of the request an operation sends: Get and Delete send none.
BodyOf(op, name, namespace, spec) ==
    CASE op = "CreateBackup" -> CreateBackupBody(name, namespace, spec)
      [] op = "CreateRestore" -> CreateRestoreBody(name, namespace, spec)
      [] op = "CreateSchedule" -> CreateScheduleBody(name, namespace, spec)
      [] OTHER -> NoBody

CreateOps == {"CreateBackup", "CreateRestore", "CreateSchedule"}
DetailOps == {"GetBackupDetail", "GetRestoreDetail", "GetScheduleDetail"}
Ops == CreateOps \cup DetailOps \cup {"DeleteSchedule"}

\* The CRD name each operation looks up.
CRDPlural(op) ==
    CASE op \in {"CreateBackup", "GetBackupDetail"} -> "backups"
      [] op \in {"CreateRestore", "GetRestoreDetail"} -> "restores"
      [] OTHER -> "schedules"

RequestOf(op, crd, namespace, name) ==
    CASE op = "CreateBackup" -> CreateBackupRequest(crd, [name |-> name, namespace |-> namespace])
      [] op = "CreateRestore" -> CreateRestoreRequest(crd, [name |-> name, namespace |-> namespace])
      [] op = "CreateSchedule" -> CreateScheduleRequest(crd, [name |-> name, namespace |-> namespace])
      [] op = "GetBackupDetail" -> getRawBackupData(crd, namespace, name)
      [] op = "GetRestoreDetail" -> getRawRestoreData(crd, namespace, name)
      [] op = "GetScheduleDetail" -> getRawScheduleData(crd, namespace, name)
      [] OTHER -> DeleteScheduleRequest(crd, namespace, name)

\* Response bodies of the server: not JSON at all, or a JSON object whose
\* metadata is an object or not, with a string name, namespace and phase or
\* without.
Raw(valid, hasMeta, name, ns, phase) ==
    [valid |-> valid, hasMeta |-> hasMeta, name |-> name, namespace |-> ns, phase |-> phase]

RawMalformed == Raw(FALSE, FALSE, NotFound, NotFound, NotFound)
RawNoMeta == Raw(TRUE, FALSE, NotFound, NotFound, Found(sNew))
RawNoName == Raw(TRUE, TRUE, NotFound, Found(sVelero), NotFound)
RawNoNamespace == Raw(TRUE, TRUE, Found(sA), NotFound, Found(sCompleted))
RawFull == Raw(TRUE, TRUE, Found(sB), Found(sVelero), Found(sFailed))

RawBodies == {RawMalformed, RawNoMeta, RawNoName, RawNoNamespace, RawFull}

NoRaw == Raw(FALSE, FALSE, NotFound, NotFound, NotFound)

Outcome(kind, stage, name, ns, phase) ==
    [kind |-> kind, stage |-> stage, name |-> name, namespace |-> ns, phase |-> phase]

Pending == Outcome("pending", "", sEmpty, sEmpty, sEmpty)
Failure(stage) == Outcome("error", stage, sEmpty, sEmpty, sEmpty)

\* The tail of CreateBackup, CreateRestore and CreateSchedule: unmarshal the
\* response, then take metadata, name and namespace by unchecked type
\* assertions, each of which aborts the handler when it fails.
CreateResult(raw) ==
    IF ~raw.valid THEN Failure("parse")
    ELSE IF ~raw.hasMeta \/ ~raw.name.found \/ ~raw.namespace.found
         THEN Outcome("panic", "parse", sEmpty, sEmpty, sEmpty)
    ELSE Outcome("ok", "", raw.name.val, raw.namespace.val, sEmpty)

\* parseBackupDetail, parseRestoreDetail, parseScheduleDetail with
\* extractMetadata: checked lookups, absent fields stay zero.
ParseDetail(raw) ==
    IF ~raw.valid THEN Failure("parse")
    ELSE Outcome("ok", "",
                 IF raw.hasMeta /\ raw.name.found THEN raw.name.val ELSE sEmpty,
                 IF raw.hasMeta /\ raw.namespace.found THEN raw.namespace.val ELSE sEmpty,
                 IF raw.phase.found THEN raw.phase.val ELSE sEmpty)

ResultOf(op, raw) ==
    IF op \in CreateOps THEN CreateResult(raw)
    ELSE IF op \in DetailOps THEN ParseDetail(raw)
    ELSE Outcome("ok", "", sEmpty, sEmpty, sEmpty)

\* ------------------------------------------------------- the detail parsers

\* A JSON value as json.Unmarshal hands it over in an interface{}: nil for
\* null, a string, a float64 (kept in halves, so that 7 is 3.5), a bool, a
\* map[string]interface{} or a []interface{}.
J(t, s, n, o, a) == [t |-> t, s |-> s, n |-> n, o |-> o, a |-> a]

JNull == J("null", sEmpty, 0, NoKeys, <<>>)
JStr(s) == J("str", s, 0, NoKeys, <<>>)
JNum(halves) == J("num", sEmpty, halves, NoKeys, <<>>)
JArr(a) == J("arr", sEmpty, 0, NoKeys, a)
JObj(o) == J("obj", sEmpty, 0, o, <<>>)

\* A key the object does not have.
JAbsent == J("absent", sEmpty, 0, NoKeys, <<>>)

\* The object with the keys of f that are there.
ObjOf(f) == JObj([k \in {key \in DOMAIN f : f[key].t # "absent"} |-> f[k]])

\* The bytes the parsers are given: JSON text of a value, or no JSON at all.
Encoded(v) == [wellFormed |-> TRUE, value |-> v]
NotJSON == [wellFormed |-> FALSE, value |-> JNull]

\* json.Unmarshal(rawData, &m) with m a map[string]interface{}: an object
\* fills the map, null leaves it nil, everything else is an error.
Unmarshal(rawData) ==
    IF ~rawData.wellFormed THEN [err |-> TRUE, m |-> NoKeys]
    ELSE IF rawData.value.t = "obj" THEN [err |-> FALSE, m |-> rawData.value.o]
    ELSE IF rawData.value.t = "null" THEN [err |-> FALSE, m |-> NoKeys]
    ELSE [err |-> TRUE, m |-> NoKeys]

\* m[key]: nil when the map has no such key (a nil map has none).
Index(m, key) == IF m # NoKeys /\ key \in DOMAIN m THEN m[key] ELSE JNull

\* m[key].(map[string]interface{})
AssertMap(m, key) ==
    [ok |-> Index(m, key).t = "obj",
     m |-> IF Index(m, key).t = "obj" THEN Index(m, key).o ELSE NoKeys]

\* m[key].(string)
AssertString(m, key) ==
    IF Index(m, key).t = "str" THEN Found(Index(m, key).s) ELSE NotFound

\* m[key].(float64)
AssertFloat64(m, key) ==
    [ok |-> Index(m, key).t = "num", halves |-> Index(m, key).n]

\* m[key].([]interface{})
AssertSlice(m, key) ==
    [ok |-> Index(m, key).t = "arr",
     a |-> IF Index(m, key).t = "arr" THEN Index(m, key).a ELSE <<>>]

\* int(f) of a float64: the fraction is dropped, towards zero.
IntOf(halves) == IF halves >= 0 THEN halves \div 2 ELSE 0 - ((0 - halves) \div 2)

\* The field a checked assertion sets, or the zero value it is left at.
StringOr(field) == IF field.found THEN field.val ELSE sEmpty
IntOr(num) == IF num.ok THEN IntOf(num.halves) ELSE 0

\* The loop over includedNamespaces appending every entry, string or not.
StringEntriesKeepingAll(a) == [i \in 1..Len(a) |-> a[i].s]

\* The loop over includedNamespaces: the entries that are strings, in order.
StringEntries(a) ==
    LET strs == SelectSeq(a, LAMBDA v : v.t = "str")
    IN  [i \in 1..Len(strs) |-> strs[i].s]

\* extractMetadata (the same function in the three packages)
extractMetadata(raw) ==
    [name |-> StringOr(AssertString(AssertMap(raw, "metadata").m, "name")),
     namespace |-> StringOr(AssertString(AssertMap(raw, "metadata").m, "namespace"))]

NoDetail == [kind |-> "nil"]

Parsed(detail) == [err |-> FALSE, detail |-> detail]
ParseError == [err |-> TRUE, detail |-> NoDetail]

\* parseBackupDetail
parseBackupDetail(rawData) ==
    IF Unmarshal(rawData).err THEN ParseError
    ELSE LET rawBackup == Unmarshal(rawData).m
             status == AssertMap(rawBackup, "status").m
             progress == AssertMap(status, "progress").m
             spec == AssertMap(rawBackup, "spec").m
         IN  Parsed([objectMeta |-> extractMetadata(rawBackup),
                     kind |-> "Backup",
                     phase |-> StringOr(AssertString(status, "phase")),
                     status |-> StringOr(AssertString(status, "phase")),
                     startTime |-> StringOr(AssertString(status, "startTimestamp")),
                     completionTime |-> StringOr(AssertString(status, "completionTimestamp")),
                     expiration |-> StringOr(AssertString(status, "expiration")),
                     progress |-> [totalItems |-> IntOr(AssertFloat64(progress, "totalItems")),
                                   itemsBackedUp |-> IntOr(AssertFloat64(progress, "itemsBackedUp")),
                                   itemsFailed |-> 0],
                     totalItems |-> IntOr(AssertFloat64(progress, "totalItems")),
                     itemsBackedUp |-> IntOr(AssertFloat64(progress, "itemsBackedUp")),
                     storageLocation |-> StringOr(AssertString(spec, "storageLocation")),
                     includedNamespaces |->
                         StringEntries(AssertSlice(spec, "includedNamespaces").a)])

\* parseRestoreDetail
parseRestoreDetail(rawData) ==
    IF Unmarshal(rawData).err THEN ParseError
    ELSE LET rawRestore == Unmarshal(rawData).m
             status == AssertMap(rawRestore, "status").m
             progress == AssertMap(status, "progress").m
             spec == AssertMap(rawRestore, "spec").m
         IN  Parsed([objectMeta |-> extractMetadata(rawRestore),
                     kind |-> "Restore",
                     phase |-> StringOr(AssertString(status, "phase")),
                     status |-> StringOr(AssertString(status, "phase")),
                     startTime |-> StringOr(AssertString(status, "startTimestamp")),
                     completionTime |-> StringOr(AssertString(status, "completionTimestamp")),
                     progress |-> [totalItems |-> IntOr(AssertFloat64(progress, "totalItems")),
                                   itemsRestored |-> IntOr(AssertFloat64(progress, "itemsRestored")),
                                   itemsFailed |-> 0],
                     totalItems |-> IntOr(AssertFloat64(progress, "totalItems")),
                     itemsRestored |-> IntOr(AssertFloat64(progress, "itemsRestored")),
                     backupName |-> StringOr(AssertString(spec, "backupName")),
                     includedNamespaces |->
                         StringEntries(AssertSlice(spec, "includedNamespaces").a)])

\* The first validation error, when the list has one and it is a string.
FirstValidationError(status) ==
    LET validationErrors == AssertSlice(status, "validationErrors")
    IN  IF validationErrors.ok /\ Len(validationErrors.a) > 0
              /\ validationErrors.a[1].t = "str"
        THEN validationErrors.a[1].s
        ELSE sEmpty

\* parseScheduleDetail copying the phase to Phase alone.
parseScheduleDetailPhaseOnly(rawData) ==
    IF Unmarshal(rawData).err THEN ParseError
    ELSE LET rawSchedule == Unmarshal(rawData).m
             spec == AssertMap(rawSchedule, "spec").m
             status == AssertMap(rawSchedule, "status").m
         IN  Parsed([objectMeta |-> extractMetadata(rawSchedule),
                     kind |-> "Schedule",
                     schedule |-> StringOr(AssertString(spec, "schedule")),
                     phase |-> StringOr(AssertString(status, "phase")),
                     status |-> sEmpty,
                     lastBackupTime |-> StringOr(AssertString(status, "lastBackupTime")),
                     validationError |-> FirstValidationError(status)])

\* parseScheduleDetail
parseScheduleDetail(rawData) ==
    IF Unmarshal(rawData).err THEN ParseError
    ELSE LET rawSchedule == Unmarshal(rawData).m
             spec == AssertMap(rawSchedule, "spec").m
             status == AssertMap(rawSchedule, "status").m
         IN  Parsed([objectMeta |-> extractMetadata(rawSchedule),
                     kind |-> "Schedule",
                     schedule |-> StringOr(AssertString(spec, "schedule")),
                     phase |-> StringOr(AssertString(status, "phase")),
                     status |-> StringOr(AssertString(status, "phase")),
                     lastBackupTime |-> StringOr(AssertString(status, "lastBackupTime")),
                     validationError |-> FirstValidationError(status)])

\* ------------------------------------------------------------------- state

VARIABLES
    backups,    \* the backup objects the cluster holds, in List order
    query,      \* the caller's filter, sort and page size
    resp,       \* the last list response (Spec)
    fetched,    \* the responses of pages 1..Len(fetched), in order (SpecPages)
    rq          \* the CRD-path requests in progress (SpecRest)

vars == <<backups, query, resp, fetched, rq>>

FilterBy(prop, val) == [property |-> prop, value |-> val]
SortBy(prop, asc) == [property |-> prop, ascending |-> asc]

Filters ==
    {<<>>,
     <<FilterBy(StatusProperty, sFail)>>,
     <<FilterBy(StatusProperty, sE), FilterBy(NameProperty, sA)>>,
     <<FilterBy(LabelProperty, sX)>>}

Sorts ==
    {<<>>,
     <<SortBy(NameProperty, TRUE)>>,
     <<SortBy(NameProperty, FALSE)>>,
     <<SortBy(CreationTimestampProperty, TRUE)>>,
     <<SortBy(NameProperty, TRUE), SortBy(CreationTimestampProperty, FALSE)>>,
     <<SortBy(NameProperty, TRUE), SortBy(StatusProperty, TRUE)>>,
     <<SortBy(LabelProperty, TRUE), SortBy(NameProperty, TRUE)>>}

PageSizes == {-1, 0, 1, 2, 10}
Pages == 1..MaxPage

QueryOf(page) == DataSelectQuery(query.filter, query.sort, query.itemsPerPage, page)

\* The clock readings one invocation may see.  A cell reads the clock only
\* when it has no creation time that parses and the sort asks for it; the
\* readings of two such cells are equal or ordered either way.
NeedsClock(b) ==
    ~(b.creationTimestamp.found /\ ParseTime(b.creationTimestamp.val).ok)

SortsByTime(sq) == \E k \in 1..Len(sq) : sq[k].property = CreationTimestampProperty

Readings(std, sq) ==
    {now \in [1..Len(std) -> 0..Len(std)] :
        /\ \A i \in 1..Len(std) :
              (now[i] > 0) <=> (SortsByTime(sq) /\ NeedsClock(std[i]))
        /\ \A i \in 1..Len(std) :
              now[i] > 1 => \E j \in 1..Len(std) : now[j] = now[i] - 1}

NoResp == [op |-> "none", page |-> 0, err |-> "none"]

InitIdle == rq = [r \in {1, 2} |-> [pc |-> "idle"]]

InitQuery ==
    /\ backups \in BackupLists
    /\ query \in [filter : Filters, sort : Sorts, itemsPerPage : PageSizes]

\* ------------------------------------------------- the caller's sequence

\* The arrays toBackupList works with: items is the one of the caller's
\* sequence (backupList.Items), cells the one ToCells makes for the cells.
\* ToCellsArray is the array the slice ToCells returns lives in.
ToCellsAliasingItems == "items"

ToCellsArray == "cells"

\* What the selection may leave in the array of the slice it is given: the
\* cells as they were, or the cells in sorted order (a sort in place).
LeftInPlace(cells, dsQuery) == {cells, Sort(cells, dsQuery.sort)}

\* The contents the caller's array std may have when toBackupList returns.
\* The parameter of toBackupList is assigned the result of FromCells, a slice with an
\* array of its own; that assignment changes the local variable only.
ItemsAfter(std, dsQuery, now) ==
    LET arrays == [items |-> std, cells |-> std]
    IN  {[arrays EXCEPT ![ToCellsArray] = FromCells(left)].items :
            left \in LeftInPlace(ToCells(std, now), dsQuery)}

\* -------------------------------------------------------- list operations

\* GetBackupList (dynamic client): list the backups, then toBackupList.
GetBackupList ==
    /\ resp.op = "none"
    /\ \/ resp' = [op |-> "GetBackupList", page |-> 0, err |-> "list"]
       \/ \E page \in Pages, now \in Readings(backups, query.sort) :
             resp' = [op |-> "GetBackupList", page |-> page, err |-> "none",
                      now |-> now, list |-> toBackupList(backups, QueryOf(page), now),
                      items |-> ItemsAfter(backups, QueryOf(page), now)]
    /\ UNCHANGED <<backups, query, fetched, rq>>

CRDListOf(op, crdList) ==
    CASE op = "GetScheduleList" -> ScheduleListOf(crdList)
      [] op = "GetRestoreList" -> RestoreListOf(crdList)
      [] OTHER -> BackupListOf(crdList)

\* GetScheduleList, GetRestoreList, GetBackupList (CRD pathway): the two
\* clients, the CRD object list, the conversion.
GetCRDList(op) ==
    /\ resp.op = "none"
    /\ \/ \E e \in {"client", "config", "list"} :
             resp' = [op |-> op, page |-> 0, err |-> e]
       \/ \E page \in Pages :
             resp' = [op |-> op, page |-> page, err |-> "none",
                      list |-> CRDListOf(op, GetCustomResourceObjectList(backups, QueryOf(page)))]
    /\ UNCHANGED <<backups, query, fetched, rq>>

GetScheduleList == GetCRDList("GetScheduleList")
GetRestoreList == GetCRDList("GetRestoreList")
GetBackupListCRD == GetCRDList("GetBackupListCRD")

\* The response is handed to the caller; the handler holds nothing after it.
Return ==
    /\ resp.op # "none"
    /\ resp' = NoResp
    /\ UNCHANGED <<backups, query, fetched, rq>>

Init ==
    /\ InitQuery
    /\ resp = NoResp
    /\ fetched = <<>>
    /\ InitIdle

Next ==
    \/ GetBackupList
    \/ GetScheduleList
    \/ GetRestoreList
    \/ GetBackupListCRD
    \/ Return

Spec == Init /\ [][Next]_vars

\* ------------------------------------------------------ a client paging on

NumPages(total, ipp) == (total + ipp - 1) \div ipp

\* A client reads page 1, then the pages the reported total announces, one
\* GetBackupList call per page.
FetchNextPage ==
    /\ query.itemsPerPage > 0
    /\ \/ fetched = <<>>
       \/ /\ fetched # <<>>
          /\ Len(fetched) < NumPages(fetched[1].list.listMeta.totalItems, query.itemsPerPage)
    /\ \E now \in Readings(backups, query.sort) :
         fetched' = Append(fetched,
                           [page |-> Len(fetched) + 1, now |-> now,
                            list |-> toBackupList(backups, QueryOf(Len(fetched) + 1), now)])
    /\ UNCHANGED <<backups, query, resp, rq>>

InitPages ==
    /\ InitQuery
    /\ query.itemsPerPage > 0
    /\ resp = NoResp
    /\ fetched = <<>>
    /\ InitIdle

NextPages == FetchNextPage

SpecPages == InitPages /\ [][NextPages]_vars

\* ------------------------------------------ a returned page selected again

\* The records of the page the GetBackupList call returned.
PageRecords ==
    FromCells(GenericDataSelectWithFilter(ToCells(backups, resp.now),
                                          QueryOf(resp.page)).cells)

\* The page is the input of a second toBackupList call, with the same
\* filter, sort and page size, asking for page 1.
SelectAgain ==
    /\ resp.op = "GetBackupList"
    /\ resp.err = "none"
    /\ "again" \notin DOMAIN resp
    /\ \E now \in Readings(PageRecords, query.sort) :
         resp' = [x \in DOMAIN resp \cup {"again"} |->
                    IF x = "again"
                    THEN [now |-> now, list |-> toBackupList(PageRecords, QueryOf(1), now)]
                    ELSE resp[x]]
    /\ UNCHANGED <<backups, query, fetched, rq>>

NextAgain ==
    \/ GetBackupList
    \/ SelectAgain

SpecAgain == Init /\ [][NextAgain]_vars

\* ------------------------------------------------- the status functions

\* What status.phase and status.failureReason of a record may hold: a phase
\* is absent, empty, one of the four the code names, or another text.
Phases ==
    {NotFound, Found(sEmpty), Found(sNew), Found(sInProgress),
     Found(sCompleted), Found(sFailed), Found(sX)}

Reasons == {NotFound, Found(sX)}

\* A list of n records with the phases ph and the failure reasons re.  The
\* records of a list differ in uid; their other fields do not matter to the
\* status functions.
StatusList(n, ph, re) ==
    [i \in 1..n |-> Rec(i, Found(sA), Found(sVelero), Stamp(1), ph[i], re[i])]

\* getBackupStatus of every record, as toBackup asks for it.
CallGetBackupStatus ==
    /\ resp.op = "none"
    /\ resp' = [op |-> "getBackupStatus", page |-> 0, err |-> "none",
                each |-> [i \in 1..Len(backups) |-> getBackupStatus(backups[i])]]
    /\ UNCHANGED <<backups, query, fetched, rq>>

\* getBackupStatusFromSingle of every record, as the summary asks for it.
CallGetBackupStatusFromSingle ==
    /\ resp.op = "none"
    /\ resp' = [op |-> "getBackupStatusFromSingle", page |-> 0, err |-> "none",
                each |-> [i \in 1..Len(backups) |-> getBackupStatusFromSingle(backups[i])]]
    /\ UNCHANGED <<backups, query, fetched, rq>>

\* getBackupListStatus of the list.
CallGetBackupListStatus ==
    /\ resp.op = "none"
    /\ resp' = [op |-> "getBackupListStatus", page |-> 0, err |-> "none",
                status |-> getBackupListStatus(backups)]
    /\ UNCHANGED <<backups, query, fetched, rq>>

InitStatus ==
    /\ \E n \in 0..MaxItems :
         \E ph \in [1..n -> Phases], re \in [1..n -> Reasons] :
            backups = StatusList(n, ph, re)
    /\ query = [filter |-> <<>>, sort |-> <<>>, itemsPerPage |-> 0]
    /\ resp = NoResp
    /\ fetched = <<>>
    /\ InitIdle

NextStatus ==
    \/ CallGetBackupStatus
    \/ CallGetBackupStatusFromSingle
    \/ CallGetBackupListStatus
    \/ Return

SpecStatus == InitStatus /\ [][NextStatus]_vars

\* ------------------------------------------- CRD-path operations, step by step

Namespaces == {"", "ns1"}
Names == {"", "b1"}
Scopes == {NamespaceScoped, ClusterScoped}

\* A request at its entry: op, the caller's namespace and name; wire is what
\* the invocation has sent to the cluster so far.
NewRequest(op, namespace, name) ==
    [pc |-> "start", op |-> op, namespace |-> namespace, name |-> name,
     spec |-> PlainSpec, body |-> NoBody,
     crd |-> NoCRD, wire |-> <<>>, raw |-> NoRaw, out |-> Pending]

Done(q, out) == [q EXCEPT !.pc = "done", !.out = out]

\* client.APIExtensionsClient and client.Config.
Begin(r) ==
    /\ rq[r].pc = "start"
    /\ \/ rq' = [rq EXCEPT ![r].pc = "lookup"]
       \/ \E stage \in {"client", "config"} :
             rq' = [rq EXCEPT ![r] = Done(@, Failure(stage))]
    /\ UNCHANGED <<backups, query, resp, fetched>>

\* The lookup with its error check after the REST request instead of before.
LookupCRDCheckedLate(r) ==
    /\ rq[r].pc = "lookup"
    /\ LET asked == [rq[r] EXCEPT !.wire =
                        Append(@, [kind |-> "crdGet", verb |-> "GET",
                                   path |-> <<CRDPlural(rq[r].op) \o ".velero.io">>])]
           q == RequestOf(rq[r].op, NoCRD, rq[r].namespace, rq[r].name)
           sent == [asked EXCEPT !.wire =
                       Append(@, [kind |-> "rest", verb |-> q.verb, path |-> URLPath(q)])]
       IN  \/ rq' = [rq EXCEPT ![r] = Done(sent, Failure("lookup"))]
           \/ \E scope \in Scopes :
                 rq' = [rq EXCEPT ![r] =
                          [asked EXCEPT !.pc = "call",
                                        !.crd = CRD(CRDPlural(rq[r].op), scope)]]
    /\ UNCHANGED <<backups, query, resp, fetched>>

\* CustomResourceDefinitions().Get of the operation's CRD.
LookupCRD(r) ==
    /\ rq[r].pc = "lookup"
    /\ LET asked == [rq[r] EXCEPT !.wire =
                        Append(@, [kind |-> "crdGet", verb |-> "GET",
                                   path |-> <<CRDPlural(rq[r].op) \o ".velero.io">>])]
       IN  \/ rq' = [rq EXCEPT ![r] = Done(asked, Failure("lookup"))]
           \/ \E scope \in Scopes :
                 rq' = [rq EXCEPT ![r] =
                          [asked EXCEPT !.pc = "call",
                                        !.crd = CRD(CRDPlural(rq[r].op), scope)]]
    /\ UNCHANGED <<backups, query, resp, fetched>>

\* The REST call made with a CRD kept in one place for all requests: the
\* one the other request looked up, when it has one.
RestCallSharedCRD(r) ==
    /\ rq[r].pc = "call"
    /\ LET other == rq[3 - r]
           crd == IF other.pc \in {"call", "parse", "done"} /\ other.crd # NoCRD
                  THEN other.crd ELSE rq[r].crd
           q == RequestOf(rq[r].op, crd, rq[r].namespace, rq[r].name)
           sent == [rq[r] EXCEPT !.wire =
                       Append(@, [kind |-> "rest", verb |-> q.verb, path |-> URLPath(q)]),
                                 !.body =
                       BodyOf(rq[r].op, rq[r].name, rq[r].namespace, rq[r].spec)]
       IN  \/ rq' = [rq EXCEPT ![r] = Done(@, Failure("restclient"))]
           \/ /\ q.err
              /\ rq' = [rq EXCEPT ![r] = Done(@, Failure("request"))]
           \/ /\ ~q.err
              /\ \/ rq' = [rq EXCEPT ![r] = Done(sent, Failure("transport"))]
                 \/ /\ rq[r].op = "DeleteSchedule"
                    /\ rq' = [rq EXCEPT ![r] = Done(sent, ResultOf(rq[r].op, NoRaw))]
                 \/ /\ rq[r].op # "DeleteSchedule"
                    /\ \E raw \in RawBodies :
                          rq' = [rq EXCEPT ![r] = [sent EXCEPT !.pc = "parse", !.raw = raw]]
    /\ UNCHANGED <<backups, query, resp, fetched>>

\* NewRESTClient, then the REST request and its result.
RestCall(r) ==
    /\ rq[r].pc = "call"
    /\ LET q == RequestOf(rq[r].op, rq[r].crd, rq[r].namespace, rq[r].name)
           sent == [rq[r] EXCEPT !.wire =
                       Append(@, [kind |-> "rest", verb |-> q.verb, path |-> URLPath(q)]),
                                 !.body =
                       BodyOf(rq[r].op, rq[r].name, rq[r].namespace, rq[r].spec)]
       IN  \/ rq' = [rq EXCEPT ![r] = Done(@, Failure("restclient"))]
           \/ /\ q.err
              /\ rq' = [rq EXCEPT ![r] = Done(@, Failure("request"))]
           \/ /\ ~q.err
              /\ \/ rq' = [rq EXCEPT ![r] = Done(sent, Failure("transport"))]
                 \/ /\ rq[r].op = "DeleteSchedule"
                    /\ rq' = [rq EXCEPT ![r] = Done(sent, ResultOf(rq[r].op, NoRaw))]
                 \/ /\ rq[r].op # "DeleteSchedule"
                    /\ \E raw \in RawBodies :
                          rq' = [rq EXCEPT ![r] = [sent EXCEPT !.pc = "parse", !.raw = raw]]
    /\ UNCHANGED <<backups, query, resp, fetched>>

\* The result built from the caller's name and namespace instead of the
\* response.
FinishEchoingSpec(r) ==
    /\ rq[r].pc = "parse"
    /\ rq' = [rq EXCEPT ![r] =
                Done(@, IF rq[r].op \in CreateOps /\ ResultOf(rq[r].op, rq[r].raw).kind = "ok"
                        THEN Outcome("ok", "",
                                     IF rq[r].name = "" THEN sEmpty ELSE sX,
                                     IF rq[r].namespace = "" THEN sEmpty ELSE sX,
                                     sEmpty)
                        ELSE ResultOf(rq[r].op, rq[r].raw))]
    /\ UNCHANGED <<backups, query, resp, fetched>>

\* The response is decoded and the result built.
Finish(r) ==
    /\ rq[r].pc = "parse"
    /\ rq' = [rq EXCEPT ![r] = Done(@, ResultOf(rq[r].op, rq[r].raw))]
    /\ UNCHANGED <<backups, query, resp, fetched>>

InitRest ==
    /\ backups = <<>>
    /\ query = [filter |-> <<>>, sort |-> <<>>, itemsPerPage |-> 0]
    /\ resp = NoResp
    /\ fetched = <<>>
    /\ \E op \in Ops, namespace \in Namespaces, name \in Names, spec \in CreateSpecs :
         rq = [r \in {1, 2} |->
                 IF r = 1
                 THEN [NewRequest(op, namespace, name) EXCEPT
                          !.spec = IF op \in CreateOps THEN spec ELSE PlainSpec]
                 ELSE [pc |-> "idle"]]

NextRest == \E r \in {1, 2} : Begin(r) \/ LookupCRD(r) \/ RestCall(r) \/ Finish(r)

SpecRest == InitRest /\ [][NextRest]_vars

\* ------------------------------------------------ two requests at a time

\* Two requests are served at once, their steps interleaved in any order.
InitConcurrent ==
    /\ backups = <<>>
    /\ query = [filter |-> <<>>, sort |-> <<>>, itemsPerPage |-> 0]
    /\ resp = NoResp
    /\ fetched = <<>>
    /\ \E op1, op2 \in Ops, ns1, ns2 \in Namespaces, name \in Names :
         rq = [r \in {1, 2} |->
                 IF r = 1 THEN NewRequest(op1, ns1, name) ELSE NewRequest(op2, ns2, "b1")]

SpecConcurrent == InitConcurrent /\ [][NextRest]_vars

\* ------------------------------------------------ the detail parsers called

\* The payloads a detail parser may be given: metadata, status and spec are
\* absent, of another type, or objects whose fields are absent, of another
\* type, or as Velero writes them.
MetadataOptions ==
    {JAbsent, JNum(2),
     ObjOf([name |-> JAbsent, namespace |-> JStr(sVelero)]),
     ObjOf([name |-> JStr(sB), namespace |-> JNum(2)]),
     ObjOf([name |-> JStr(sB), namespace |-> JStr(sVelero)])}

ProgressOptions ==
    {JAbsent, JStr(sX),
     ObjOf([totalItems |-> JNum(7), itemsBackedUp |-> JNum(4), itemsRestored |-> JStr(sA)]),
     ObjOf([totalItems |-> JStr(sA), itemsBackedUp |-> JAbsent, itemsRestored |-> JNum(-3)]),
     ObjOf([totalItems |-> JNum(6), itemsBackedUp |-> JNum(2), itemsRestored |-> JNum(4)])}

ValidationOptions ==
    {JAbsent, JArr(<<>>), JArr(<<JNum(2), JStr(sX)>>), JArr(<<JStr(sX)>>)}

StatusOptions ==
    {JAbsent, JArr(<<>>)}
      \cup {ObjOf([phase |-> p, startTimestamp |-> t, completionTimestamp |-> JNull,
                   expiration |-> t, lastBackupTime |-> t,
                   progress |-> g, validationErrors |-> v]) :
               p \in {JAbsent, JNum(2), JStr(sCompleted)}, t \in {JAbsent, JStr(sA)},
               g \in ProgressOptions, v \in ValidationOptions}

SpecOptions ==
    {JAbsent, JStr(sX)}
      \cup {ObjOf([storageLocation |-> s, backupName |-> s, schedule |-> s,
                   includedNamespaces |-> n]) :
               s \in {JAbsent, JNum(2), JStr(sA)},
               n \in {JAbsent, JStr(sA), JArr(<<>>),
                      JArr(<<JStr(sA), JNum(2), JNull, JStr(sB)>>)}}

Payloads ==
    {NotJSON}
      \cup {Encoded(v) : v \in {JNull, JArr(<<>>), JStr(sA), JNum(2)}}
      \cup {Encoded(ObjOf([metadata |-> m, status |-> st, spec |-> sp])) :
               m \in MetadataOptions, st \in StatusOptions, sp \in SpecOptions}

DetailResponse(op, rawData, parsed) ==
    [op |-> op, page |-> 0, err |-> IF parsed.err THEN "parse" ELSE "none",
     raw |-> rawData, detail |-> parsed.detail]

CallParseBackupDetail ==
    /\ resp.op = "none"
    /\ \E rawData \in Payloads :
          resp' = DetailResponse("parseBackupDetail", rawData, parseBackupDetail(rawData))
    /\ UNCHANGED <<backups, query, fetched, rq>>

CallParseRestoreDetail ==
    /\ resp.op = "none"
    /\ \E rawData \in Payloads :
          resp' = DetailResponse("parseRestoreDetail", rawData, parseRestoreDetail(rawData))
    /\ UNCHANGED <<backups, query, fetched, rq>>

CallParseScheduleDetail ==
    /\ resp.op = "none"
    /\ \E rawData \in Payloads :
          resp' = DetailResponse("parseScheduleDetail", rawData, parseScheduleDetail(rawData))
    /\ UNCHANGED <<backups, query, fetched, rq>>

InitDetail ==
    /\ backups = <<>>
    /\ query = [filter |-> <<>>, sort |-> <<>>, itemsPerPage |-> 0]
    /\ resp = NoResp
    /\ fetched = <<>>
    /\ InitIdle

NextDetail ==
    \/ CallParseBackupDetail
    \/ CallParseRestoreDetail
    \/ CallParseScheduleDetail
    \/ Return

SpecDetail == InitDetail /\ [][NextDetail]_vars


\* ================================================================== claims

\* ---- helpers of the claims

RestEvents(r) == {k \in 1..Len(rq[r].wire) : rq[r].wire[k].kind = "rest"}

Active(r) == rq[r].pc # "idle"

\* The name segment an operation's path ends with: none for Create.
NamePart(r) == IF rq[r].op \in CreateOps THEN <<>> ELSE <<rq[r].name>>

HasSegment(path, seg) == \E i \in 1..Len(path) : path[i] = seg

IsBackupList == resp.op = "GetBackupList" /\ resp.err = "none"

IsCRDList ==
    /\ resp.op \in {"GetScheduleList", "GetRestoreList", "GetBackupListCRD"}
    /\ resp.err = "none"

Uids(list) == [i \in 1..Len(list.backups) |-> list.backups[i].objectMeta.uid]

\* The positions of the input whose cell holds, for every pair of the
\* filter, a value that contains the pair's match value.
Matching(std, now, fq) ==
    {i \in 1..Len(std) :
        \A k \in 1..Len(fq) :
            LET v == GetProperty(Cell(std[i], now[i]), fq[k].property)
            IN  v.kind = "string" /\ IsSubstring(fq[k].value, v.s)}

NoClock(std) == [i \in 1..Len(std) |-> 0]

\* i comes before j in the stable order of the sort keys.
Before(std, now, sq, i, j) ==
    LET ci == Cell(std[i], now[i])
        cj == Cell(std[j], now[j])
    IN  \/ Less(ci, cj, sq)
        \/ ~Less(cj, ci, sq) /\ i < j

\* The uids of the matching items, each at the place its rank gives it.
Ranked(std, now, fq, sq) ==
    LET F == Matching(std, now, fq)
        Rank(i) == 1 + Cardinality({j \in F : j # i /\ Before(std, now, sq, j, i)})
    IN  [k \in 1..Cardinality(F) |-> std[CHOOSE i \in F : Rank(i) = k].uid]

\* The slice of s a page request asks for.
SliceOf(s, ipp, page) ==
    IF ipp <= 0 THEN s
    ELSE [k \in 1..(IF Len(s) - (page - 1) * ipp < 0 THEN 0
                     ELSE Min(ipp, Len(s) - (page - 1) * ipp)) |->
            s[(page - 1) * ipp + k]]

\* Two input positions agree on every key of the sort.
TiedOn(std, now, sq, i, j) ==
    \A k \in 1..Len(sq) :
        Compare(GetProperty(Cell(std[i], now[i]), sq[k].property),
                GetProperty(Cell(std[j], now[j]), sq[k].property)) = 0

IndexOfUid(std, u) == CHOOSE i \in 1..Len(std) : std[i].uid = u

\* C1: whenever the CRD an operation looked up has scope Cluster, the path
\* of the REST request it sends has no namespaces segment, whatever
\* namespace the caller gave: it is /apis/<group>/<version>/<plural>[/<name>].
C1_ClusterScopeNoNamespaceSegment ==
    \A r \in {1, 2} : Active(r) =>
        \A k \in RestEvents(r) :
            rq[r].crd.scope = ClusterScoped =>
                /\ ~HasSegment(rq[r].wire[k].path, "namespaces")
                /\ ~HasSegment(rq[r].wire[k].path, "ns1")
                /\ rq[r].wire[k].path =
                      <<"apis", "velero.io", "v1", rq[r].crd.plural>> \o NamePart(r)

C1_Witness ==
    \E r \in {1, 2} :
        /\ Active(r)
        /\ rq[r].op = "GetBackupDetail"
        /\ rq[r].namespace = "ns1"
        /\ rq[r].crd.scope = ClusterScoped
        /\ \E k \in RestEvents(r) :
              rq[r].wire[k].path = <<"apis", "velero.io", "v1", "backups", "b1">>

\* C2: with a Namespaced CRD and a non-empty namespace ns the path is
\* /apis/<group>/<version>/namespaces/<ns>/<plural>[/<name>], <plural> being
\* the plural of the CRD looked up and <name> present for Get and Delete
\* only; with a Namespaced CRD and an empty namespace there is no
\* namespace segment.
C2_NamespacedPathShape ==
    \A r \in {1, 2} : Active(r) =>
        \A k \in RestEvents(r) :
            rq[r].crd.scope = NamespaceScoped =>
                rq[r].wire[k].path =
                    <<"apis", rq[r].crd.group, rq[r].crd.version>>
                      \o (IF rq[r].namespace # ""
                          THEN <<"namespaces", rq[r].namespace>> ELSE <<>>)
                      \o <<rq[r].crd.plural>> \o NamePart(r)

C2_Witness ==
    \E r \in {1, 2} :
        /\ Active(r)
        /\ rq[r].op = "CreateBackup"
        /\ rq[r].crd.scope = NamespaceScoped
        /\ \E k \in RestEvents(r) :
              rq[r].wire[k].path =
                  <<"apis", "velero.io", "v1", "namespaces", "ns1", "backups">>

\* C3: the total toBackupList reports is the number of input items that
\* pass the filter, whatever the page size and the page.
C3_TotalIsFilterCount ==
    IsBackupList =>
        resp.list.listMeta.totalItems =
            Cardinality(Matching(backups, NoClock(backups), query.filter))

\* The total is neither the length of the page nor that of the input.
C3_Witness ==
    /\ IsBackupList
    /\ Len(backups) = 3
    /\ resp.list.listMeta.totalItems = 2
    /\ Len(resp.list.backups) = 1

\* C4: the total of a CRD-pathway list is the number of items after
\* filtering and before pagination.
C4_CRDTotalIsFilterCount ==
    IsCRDList =>
        resp.list.listMeta.totalItems =
            GetCustomResourceObjectList(backups,
                DataSelectQuery(query.filter, <<>>, 0, 1)).listMeta.totalItems

\* C5: the page is the requested slice of the sorted sequence of the
\* filtered items; b, a sorted by name with page size 1 gives a, total 2.
C5_FilterSortPaginate ==
    IsBackupList =>
        /\ Uids(resp.list) =
              SliceOf(Ranked(backups, resp.now, query.filter, query.sort),
                      query.itemsPerPage, resp.page)
        /\ ( /\ backups = <<B1, B2>>
              /\ query.filter = <<>>
              /\ query.sort = <<SortBy(NameProperty, TRUE)>>
              /\ query.itemsPerPage = 1
              /\ resp.page = 1 )
           => /\ Uids(resp.list) = <<2>>
              /\ resp.list.listMeta.totalItems = 2

C5_Witness ==
    /\ IsBackupList
    /\ backups = <<B1, B2>>
    /\ query.filter = <<>>
    /\ query.sort = <<SortBy(NameProperty, TRUE)>>
    /\ query.itemsPerPage = 1
    /\ resp.page = 1
    /\ resp.list.backups[1].objectMeta.name = sA

\* C6: an item is selected exactly when, for every pair of the filter, the
\* value its cell returns contains the match value; Status "Fail" over
\* Failed, Completed, Failed selects the two Failed items.
C6_FilterIsConjunctionOfContains ==
    IsBackupList =>
        /\ \A k \in 1..Len(resp.list.backups) :
              IndexOfUid(backups, Uids(resp.list)[k])
                  \in Matching(backups, resp.now, query.filter)
        /\ query.itemsPerPage <= 0 =>
              {Uids(resp.list)[k] : k \in 1..Len(resp.list.backups)}
                  = {backups[i].uid : i \in Matching(backups, resp.now, query.filter)}
        /\ ( /\ backups = <<B2, B1, B3>>
              /\ query.filter = <<FilterBy(StatusProperty, sFail)>>
              /\ query.sort = <<>>
              /\ query.itemsPerPage <= 0 )
           => /\ Uids(resp.list) = <<2, 3>>
              /\ resp.list.listMeta.totalItems = 2

C6_Witness ==
    /\ IsBackupList
    /\ backups = <<B2, B1, B3>>
    /\ query.filter = <<FilterBy(StatusProperty, sFail)>>
    /\ query.sort = <<>>
    /\ query.itemsPerPage = 0
    /\ Len(resp.list.backups) = 2

\* C7: two returned items that agree on every sort key are in their input
\* order (so with no sort key the page is in input order).
C7_SortIsStable ==
    IsBackupList =>
        \A k, l \in 1..Len(resp.list.backups) :
            LET i == IndexOfUid(backups, Uids(resp.list)[k])
                j == IndexOfUid(backups, Uids(resp.list)[l])
            IN  (k < l /\ TiedOn(backups, resp.now, query.sort, i, j)) => i < j

\* B3 and B2 agree on name and status, and come back in input order.
C7_Witness ==
    /\ IsBackupList
    /\ query.sort = <<SortBy(NameProperty, TRUE), SortBy(StatusProperty, TRUE)>>
    /\ backups = <<B3, B1, B2>>
    /\ Uids(resp.list) = <<3, 2, 1>>

\* C8: the pages 1..ceil(total/itemsPerPage) of one input hold every
\* filtered item exactly once.
PagesConcat == [k \in 1..Len(fetched) |-> Uids(fetched[k].list)]

RECURSIVE Flatten(_)
Flatten(ss) == IF ss = <<>> THEN <<>> ELSE Head(ss) \o Flatten(Tail(ss))

AllFetched ==
    /\ fetched # <<>>
    /\ Len(fetched) >= NumPages(fetched[1].list.listMeta.totalItems, query.itemsPerPage)

C8_PagesPartition ==
    AllFetched =>
        LET all == Flatten(PagesConcat)
        IN  /\ \A k, l \in 1..Len(all) : k # l => all[k] # all[l]
            /\ {all[k] : k \in 1..Len(all)}
                  = {backups[i].uid : i \in Matching(backups, NoClock(backups), query.filter)}

\* C9: a page that starts at or beyond the number of filtered items is
\* empty, and the total is still that number.
C9_PageBeyondRangeIsEmpty ==
    ( /\ IsBackupList
      /\ query.itemsPerPage > 0
      /\ (resp.page - 1) * query.itemsPerPage
            >= Cardinality(Matching(backups, resp.now, query.filter)) )
    => /\ resp.list.backups = <<>>
       /\ resp.list.listMeta.totalItems
             = Cardinality(Matching(backups, resp.now, query.filter))

C9_Witness ==
    /\ IsBackupList
    /\ query.itemsPerPage = 10
    /\ resp.page = 5
    /\ resp.list.listMeta.totalItems = 3
    /\ resp.list.backups = <<>>

\* C10: with a page size of 0 or less the result is the whole filtered and
\* sorted sequence, whatever the page.
C10_NoPageSizeIsIdentity ==
    (IsBackupList /\ query.itemsPerPage <= 0) =>
        /\ Uids(resp.list) = Ranked(backups, resp.now, query.filter, query.sort)
        /\ Len(resp.list.backups) = resp.list.listMeta.totalItems

C10_Witness ==
    /\ IsBackupList
    /\ query.itemsPerPage < 0
    /\ resp.page = 3
    /\ query.sort = <<SortBy(NameProperty, FALSE)>>
    /\ Len(resp.list.backups) = 3

\* C11: a cell whose record lacks a compared property answers with the
\* least value of the property's type (the empty string for name, namespace
\* and phase, the zero time for a creation timestamp that is absent or does
\* not parse), so with an ascending sort by creation time the items without
\* one come before all items that have one.
C11_AbsentPropertyIsMinimal ==
    IsBackupList =>
        /\ \A i \in 1..Len(backups) :
              LET c == Cell(backups[i], resp.now[i])
              IN  /\ ~backups[i].name.found =>
                        GetProperty(c, NameProperty) = StdComparableString(sEmpty)
                  /\ ~backups[i].namespace.found =>
                        GetProperty(c, NamespaceProperty) = StdComparableString(sEmpty)
                  /\ ~backups[i].phase.found =>
                        GetProperty(c, StatusProperty) = StdComparableString(sEmpty)
                  /\ (SortsByTime(query.sort) /\ NeedsClock(backups[i])) =>
                        GetProperty(c, CreationTimestampProperty) = StdComparableTime(0)
        /\ ( /\ query.sort = <<SortBy(CreationTimestampProperty, TRUE)>>
              /\ query.itemsPerPage <= 0 )
           => \A k, l \in 1..Len(resp.list.backups) :
                 ( /\ k < l
                   /\ NeedsClock(backups[IndexOfUid(backups, Uids(resp.list)[l])]) )
                 => NeedsClock(backups[IndexOfUid(backups, Uids(resp.list)[k])])

\* C12: a filter pair on a property the cell does not know selects nothing
\* and the call still returns a list; a sort key on such a property orders
\* nothing, so the page is the one the remaining keys give.
UnknownProperty(name) ==
    name \notin {NameProperty, CreationTimestampProperty, NamespaceProperty, StatusProperty}

KnownKeys(sq) == SelectSeq(sq, LAMBDA s : ~UnknownProperty(s.property))

C12_UnknownPropertyDegrades ==
    IsBackupList =>
        /\ (\E k \in 1..Len(query.filter) : UnknownProperty(query.filter[k].property))
              => /\ resp.list.backups = <<>>
                 /\ resp.list.listMeta.totalItems = 0
        /\ Uids(resp.list) =
              SliceOf(Ranked(backups, resp.now, query.filter, KnownKeys(query.sort)),
                      query.itemsPerPage, resp.page)

C12_Witness ==
    /\ IsBackupList
    /\ Len(backups) = 3
    /\ query.filter = <<FilterBy(LabelProperty, sX)>>
    /\ query.sort = <<SortBy(LabelProperty, TRUE), SortBy(NameProperty, TRUE)>>
    /\ resp.list.backups = <<>>
    /\ resp.list.listMeta.totalItems = 0

\* C13: both classifiers put every record in exactly one of New, InProgress,
\* Completed, Failed: the phases "New", "InProgress", "Completed", "Failed"
\* classify as themselves, and every other phase, the empty phase and an
\* absent phase classify as New.
IsClassification == resp.op \in {"getBackupStatus", "getBackupStatusFromSingle"}

C13_PhaseClassificationTotal ==
    IsClassification =>
        /\ Len(resp.each) = Len(backups)
        /\ \A i \in 1..Len(backups) :
              LET st == resp.each[i].status
                  ph == backups[i].phase
              IN  /\ st \in {BackupStatusNew, BackupStatusInProgress,
                              BackupStatusCompleted, BackupStatusFailed}
                  /\ (st = BackupStatusInProgress) <=> (ph = Found(sInProgress))
                  /\ (st = BackupStatusCompleted) <=> (ph = Found(sCompleted))
                  /\ (st = BackupStatusFailed) <=> (ph = Found(sFailed))
                  /\ (st = BackupStatusNew) <=>
                        (ph \notin {Found(sInProgress), Found(sCompleted), Found(sFailed)})

C13_Witness ==
    /\ resp.op = "getBackupStatus"
    /\ Len(backups) = 3
    /\ backups[1].phase = Found(sX)
    /\ backups[2].phase = Found(sEmpty)
    /\ backups[3].phase = NotFound
    /\ \A i \in 1..3 : resp.each[i].status = BackupStatusNew

\* C14: the four counters of getBackupListStatus add up to the number of
\* backups, each backup counted once: Failed under failed, Completed under
\* succeeded, InProgress under running, New and anything else under pending.
CountPhase(std, phases) == Cardinality({i \in 1..Len(std) : std[i].phase \in phases})

C14_CountersSumToLength ==
    resp.op = "getBackupListStatus" =>
        /\ resp.status.running + resp.status.pending
              + resp.status.succeeded + resp.status.failed = Len(backups)
        /\ resp.status.failed = CountPhase(backups, {Found(sFailed)})
        /\ resp.status.succeeded = CountPhase(backups, {Found(sCompleted)})
        /\ resp.status.running = CountPhase(backups, {Found(sInProgress)})
        /\ resp.status.pending =
              CountPhase(backups, Phases \ {Found(sFailed), Found(sCompleted), Found(sInProgress)})

C14_Witness ==
    /\ resp.op = "getBackupListStatus"
    /\ Len(backups) = 3
    /\ backups[1].phase = Found(sFailed)
    /\ backups[2].phase = Found(sX)
    /\ backups[3].phase = Found(sInProgress)
    /\ resp.status = [running |-> 1, pending |-> 1, succeeded |-> 0, failed |-> 1]

\* C15: when the response to a Create is not JSON, or is JSON without a
\* metadata object or without a string name or a string namespace in it,
\* CreateBackup, CreateRestore and CreateSchedule return a decode error,
\* which is not the error of a failed REST call, and do not abort.
Answered(r) ==
    /\ Active(r)
    /\ rq[r].pc = "done"
    /\ RestEvents(r) # {}
    /\ rq[r].out # Failure("transport")

UnexpectedShape(raw) ==
    ~raw.valid \/ ~raw.hasMeta \/ ~raw.name.found \/ ~raw.namespace.found

C15_CreateDecodeError ==
    \A r \in {1, 2} :
        (Answered(r) /\ rq[r].op \in CreateOps /\ UnexpectedShape(rq[r].raw)) =>
            /\ rq[r].out.kind = "error"
            /\ rq[r].out.stage = "parse"

\* C16: when the lookup of the CRD fails the operation returns that failure
\* and no result, has sent no REST request for the custom resource, and has
\* asked for the CRD once.
CRDGets(r) == {k \in 1..Len(rq[r].wire) : rq[r].wire[k].kind = "crdGet"}

C16_LookupFailureStops ==
    \A r \in {1, 2} :
        (Active(r) /\ rq[r].out.kind = "error" /\ rq[r].out.stage = "lookup") =>
            /\ rq[r].pc = "done"
            /\ rq[r].out = Failure("lookup")
            /\ RestEvents(r) = {}
            /\ Cardinality(CRDGets(r)) = 1

C16_Witness ==
    \E r \in {1, 2} :
        /\ Active(r)
        /\ rq[r].op = "DeleteSchedule"
        /\ rq[r].pc = "done"
        /\ rq[r].out = Failure("lookup")
        /\ Len(rq[r].wire) = 1

\* C17: with two requests interleaved, every request sends what its own
\* inputs and its own CRD lookup give (the path has the plural and the scope
\* of the CRD it looked up itself) and ends with the outcome it has alone on
\* the same responses of the cluster.
OwnPath(q) ==
    <<"apis", "velero.io", "v1">>
        \o (IF q.crd.scope = NamespaceScoped /\ q.namespace # ""
            THEN <<"namespaces", q.namespace>> ELSE <<>>)
        \o <<CRDPlural(q.op)>>
        \o (IF q.op \in CreateOps THEN <<>> ELSE <<q.name>>)

OwnVerb(q) ==
    IF q.op \in CreateOps THEN "POST"
    ELSE IF q.op = "DeleteSchedule" THEN "DELETE" ELSE "GET"

OwnWire(q) ==
    IF q.pc = "start" \/ q.pc = "lookup" \/ q.out.stage \in {"client", "config"}
    THEN <<>>
    ELSE <<[kind |-> "crdGet", verb |-> "GET", path |-> <<CRDPlural(q.op) \o ".velero.io">>]>>
         \o (IF q.pc = "call" \/ q.out.stage \in {"lookup", "restclient", "request"}
             THEN <<>>
             ELSE <<[kind |-> "rest", verb |-> OwnVerb(q), path |-> OwnPath(q)]>>)

OwnOutcome(q) ==
    IF q.pc # "done" THEN Pending
    ELSE IF q.out.kind = "error" /\ q.out.stage # "parse" THEN Failure(q.out.stage)
    ELSE IF q.op = "DeleteSchedule" THEN Outcome("ok", "", sEmpty, sEmpty, sEmpty)
    ELSE IF q.op \in CreateOps THEN CreateResult(q.raw)
    ELSE ParseDetail(q.raw)

C17_RequestsIndependent ==
    \A r \in {1, 2} : Active(r) =>
        /\ rq[r].crd # NoCRD => rq[r].crd.plural = CRDPlural(rq[r].op)
        /\ rq[r].wire = OwnWire(rq[r])
        /\ rq[r].out = OwnOutcome(rq[r])

C17_Witness ==
    /\ rq[1].pc = "done" /\ rq[2].pc = "done"
    /\ rq[1].op = "CreateBackup" /\ rq[2].op = "DeleteSchedule"
    /\ rq[1].crd.scope = NamespaceScoped /\ rq[2].crd.scope = ClusterScoped
    /\ rq[1].namespace = "ns1" /\ rq[2].namespace = "ns1"
    /\ rq[1].out.kind = "ok" /\ rq[2].out.kind = "ok"
    /\ rq[1].wire[2].path = <<"apis", "velero.io", "v1", "namespaces", "ns1", "backups">>
    /\ rq[2].wire[2].path = <<"apis", "velero.io", "v1", "schedules", "b1">>

\* C18: whatever fields the records lack, toBackupList returns a list whose
\* backups are one entry per cell the pipeline selected, in the pipeline's
\* order, the fields a record lacks left at their zero values, and no
\* error collected.
Str(field) == IF field.found THEN field.val ELSE sEmpty

C18_MalformedItemKept ==
    IsBackupList =>
        LET sel == GenericDataSelectWithFilter(ToCells(backups, resp.now), QueryOf(resp.page))
        IN  /\ Len(resp.list.backups) = Len(sel.cells)
            /\ resp.list.errors = <<>>
            /\ \A i \in 1..Len(sel.cells) :
                  LET b == sel.cells[i].obj
                      v == resp.list.backups[i]
                  IN  /\ v.objectMeta.uid = b.uid
                      /\ v.objectMeta.name = Str(b.name)
                      /\ v.objectMeta.namespace = Str(b.namespace)
                      /\ v.objectMeta.creationTimestamp =
                            (IF NeedsClock(b) THEN 0 ELSE b.creationTimestamp.val.unix)
                      /\ v.backupStatus.message = Str(b.failureReason)
                      /\ ~b.phase.found => v.backupStatus.status = BackupStatusNew

C18_Witness ==
    /\ IsBackupList
    /\ backups = <<B4, B1, B3>>
    /\ query.filter = <<>>
    /\ query.sort = <<SortBy(NameProperty, TRUE)>>
    /\ query.itemsPerPage = 0
    /\ Uids(resp.list) = <<4, 3, 1>>
    /\ resp.list.backups[1].objectMeta.name = sEmpty
    /\ resp.list.backups[1].objectMeta.creationTimestamp = 0
    /\ resp.list.backups[2].objectMeta.creationTimestamp = 0

\* C19: selecting again from a returned page, with the same filter and
\* sort and asking for page 1, returns that page: nothing is dropped and
\* nothing changes place.
C19_SelectionIdempotent ==
    (resp.op = "GetBackupList" /\ "again" \in DOMAIN resp) =>
        /\ Uids(resp.again.list) = Uids(resp.list)
        /\ resp.again.list.listMeta.totalItems = Len(resp.list.backups)

C21_EmptyListShape ==
    IsCRDList =>
        /\ ~resp.list.itemsNil
        /\ resp.list.items = <<>> => resp.list.listMeta.totalItems = 0

\* C22: the body of a Create carries the caller's fields as they came:
\* apiVersion, kind, metadata.name and metadata.namespace always, and for
\* backups and schedules includedNamespaces, storageLocation and ttl always,
\* even when empty; excludedNamespaces, includedResources and
\* excludedResources are keys exactly when the caller's list is not empty,
\* and labelSelector is a key exactly when the caller gave a selector, an
\* empty one included; no Create ends with an error of the request itself.
Posted(r) == Active(r) /\ rq[r].op \in CreateOps /\ RestEvents(r) # {}

KindOf(op) ==
    CASE op = "CreateBackup" -> "Backup"
      [] op = "CreateRestore" -> "Restore"
      [] OTHER -> "Schedule"

\* The map of the body the optional fields are keys of.
FieldsOf(q) == IF q.op = "CreateSchedule" THEN q.body.spec.template ELSE q.body.spec

ListKeys == {"excludedNamespaces", "includedResources", "excludedResources"}

PassedThrough(q) ==
    /\ q.body.apiVersion = "velero.io/v1"
    /\ q.body.kind = KindOf(q.op)
    /\ q.body.metadata = [name |-> q.name, namespace |-> q.namespace]
    /\ q.op # "CreateRestore" =>
          /\ {"includedNamespaces", "storageLocation", "ttl"} \subseteq DOMAIN FieldsOf(q)
          /\ FieldsOf(q)["includedNamespaces"] = q.spec.includedNamespaces
          /\ FieldsOf(q)["storageLocation"] = q.spec.storageLocation
          /\ FieldsOf(q)["ttl"] = q.spec.ttl
    /\ \A k \in ListKeys :
          /\ (k \in DOMAIN FieldsOf(q)) <=> (q.spec[k] # <<>>)
          /\ (k \in DOMAIN FieldsOf(q)) => FieldsOf(q)[k] = q.spec[k]

NeverRejected(r) ==
    (Active(r) /\ rq[r].op \in CreateOps) => rq[r].out.stage # "request"

C22_CreateBodyPassThrough ==
    \A r \in {1, 2} :
        /\ NeverRejected(r)
        /\ Posted(r) =>
              /\ PassedThrough(rq[r])
              /\ ("labelSelector" \in DOMAIN FieldsOf(rq[r])) <=> rq[r].spec.labelSelector.set

C22_Witness ==
    \E r \in {1, 2} :
        /\ Posted(r)
        /\ rq[r].op = "CreateSchedule"
        /\ rq[r].name = ""
        /\ rq[r].spec.labelSelector = EmptySelector
        /\ DOMAIN rq[r].body.spec.template
              = {"includedNamespaces", "storageLocation", "ttl", "labelSelector"}

\* C22 as stated: labelSelector is a key exactly when the caller gave a
\* selector that is not empty.
C22_AsStated ==
    \A r \in {1, 2} :
        /\ NeverRejected(r)
        /\ Posted(r) =>
              /\ PassedThrough(rq[r])
              /\ ("labelSelector" \in DOMAIN FieldsOf(rq[r])) <=>
                    (rq[r].spec.labelSelector.set /\ rq[r].spec.labelSelector.matchLabels # <<>>)

\* C23: BackupCell.GetProperty answers exactly Name, CreationTimestamp,
\* Namespace and Status with a value, whatever the record holds, and answers
\* every other property name, Label included, with nil; a Label filter pair
\* therefore looks up a property no cell has.
PropertyNames ==
    {NameProperty, CreationTimestampProperty, NamespaceProperty, StatusProperty,
     LabelProperty, "type", ""}

CellOf(i) == ToCells(backups, resp.now)[i]

C23_KnownPropertiesOnly ==
    IsBackupList =>
        \A i \in 1..Len(backups) :
            /\ \A p \in PropertyNames :
                  (GetProperty(CellOf(i), p) # Nil)
                     <=> p \in {NameProperty, CreationTimestampProperty,
                                NamespaceProperty, StatusProperty}
            /\ GetProperty(CellOf(i), NameProperty).kind = "string"
            /\ GetProperty(CellOf(i), NamespaceProperty).kind = "string"
            /\ GetProperty(CellOf(i), StatusProperty).kind = "string"
            /\ GetProperty(CellOf(i), CreationTimestampProperty).kind = "time"
            /\ \A k \in 1..Len(query.filter) :
                  query.filter[k].property = LabelProperty
                     => DataCellProperty(CellOf(i), query.filter[k].property) = Nil

C23_Witness ==
    /\ IsBackupList
    /\ query.filter = <<FilterBy(LabelProperty, sX)>>
    /\ query.sort = <<SortBy(CreationTimestampProperty, TRUE)>>
    /\ \E i \in 1..Len(backups) :
          /\ backups[i] = B4
          /\ GetProperty(CellOf(i), LabelProperty) = Nil
          /\ GetProperty(CellOf(i), NamespaceProperty) = StdComparableString(sEmpty)
          /\ GetProperty(CellOf(i), StatusProperty) = StdComparableString(sUnknown)
          /\ GetProperty(CellOf(i), CreationTimestampProperty).t > MaxStamp

\* C24: a Create sends at most one request for the custom resource, a POST,
\* and only once it has asked for the CRD and holds it; a Create that
\* succeeds has sent exactly the CRD lookup and then the POST, and returns
\* the name and the namespace of the response body; a Create whose POST got
\* no response returns an error and no object.
Succeeded(r) == Active(r) /\ rq[r].pc = "done" /\ rq[r].out.kind = "ok"

C24_OnePostAfterLookup ==
    \A r \in {1, 2} :
        (Active(r) /\ rq[r].op \in CreateOps) =>
            /\ Cardinality(RestEvents(r)) <= 1
            /\ \A k \in RestEvents(r) :
                  /\ rq[r].wire[k].verb = "POST"
                  /\ \E j \in CRDGets(r) : j < k
                  /\ rq[r].crd # NoCRD
            /\ Succeeded(r) =>
                  /\ Len(rq[r].wire) = 2
                  /\ CRDGets(r) = {1}
                  /\ RestEvents(r) = {2}
                  /\ rq[r].raw.valid
                  /\ rq[r].out.name = Str(rq[r].raw.name)
                  /\ rq[r].out.namespace = Str(rq[r].raw.namespace)
            /\ (rq[r].pc = "done" /\ RestEvents(r) # {} /\ rq[r].raw = NoRaw) =>
                  /\ rq[r].out.kind = "error"
                  /\ rq[r].out.name = sEmpty
                  /\ rq[r].out.namespace = sEmpty

C24_Witness ==
    \E r \in {1, 2} :
        /\ Succeeded(r)
        /\ rq[r].op = "CreateRestore"
        /\ rq[r].name = ""
        /\ rq[r].namespace = "ns1"
        /\ rq[r].raw = RawFull
        /\ rq[r].out.name = sB
        /\ rq[r].out.namespace = sVelero
        /\ Cardinality(RestEvents(r)) = 1

\* C25: the detail parsers return an error only for a payload that is not
\* the JSON text of an object; for every payload that is, they return a
\* detail and no error, in which each field has the value the payload has
\* at its path when that value has the expected type and the zero value
\* otherwise, and includedNamespaces holds the string entries of the
\* payload's list, in order, the other entries skipped.
IsDetail ==
    resp.op \in {"parseBackupDetail", "parseRestoreDetail", "parseScheduleDetail"}

DecodesAsObject(rawData) == rawData.wellFormed /\ rawData.value.t = "obj"

RECURSIVE At(_, _)
At(v, path) ==
    IF path = <<>> THEN v
    ELSE IF v.t = "obj" /\ v.o # NoKeys /\ Head(path) \in DOMAIN v.o
         THEN At(v.o[Head(path)], Tail(path))
         ELSE JNull

TextAt(v, path) == IF At(v, path).t = "str" THEN At(v, path).s ELSE sEmpty

RECURSIVE Texts(_)
Texts(a) ==
    IF a = <<>> THEN <<>>
    ELSE (IF Head(a).t = "str" THEN <<Head(a).s>> ELSE <<>>) \o Texts(Tail(a))

TextsAt(v, path) == IF At(v, path).t = "arr" THEN Texts(At(v, path).a) ELSE <<>>

C25_DetailParsersTolerant ==
    IsDetail =>
        /\ resp.err = "parse" => ~DecodesAsObject(resp.raw)
        /\ DecodesAsObject(resp.raw) =>
              /\ resp.err = "none"
              /\ resp.detail # NoDetail
              /\ resp.detail.objectMeta.name = TextAt(resp.raw.value, <<"metadata", "name">>)
              /\ resp.detail.objectMeta.namespace =
                    TextAt(resp.raw.value, <<"metadata", "namespace">>)
              /\ resp.detail.phase = TextAt(resp.raw.value, <<"status", "phase">>)
              /\ resp.op = "parseBackupDetail" =>
                    /\ resp.detail.startTime =
                          TextAt(resp.raw.value, <<"status", "startTimestamp">>)
                    /\ resp.detail.completionTime =
                          TextAt(resp.raw.value, <<"status", "completionTimestamp">>)
                    /\ resp.detail.expiration =
                          TextAt(resp.raw.value, <<"status", "expiration">>)
                    /\ resp.detail.storageLocation =
                          TextAt(resp.raw.value, <<"spec", "storageLocation">>)
                    /\ At(resp.raw.value, <<"status", "progress", "totalItems">>).t # "num"
                          => resp.detail.progress.totalItems = 0
                    /\ At(resp.raw.value, <<"status", "progress", "itemsBackedUp">>).t # "num"
                          => resp.detail.progress.itemsBackedUp = 0
                    /\ resp.detail.includedNamespaces =
                          TextsAt(resp.raw.value, <<"spec", "includedNamespaces">>)
              /\ resp.op = "parseRestoreDetail" =>
                    /\ resp.detail.startTime =
                          TextAt(resp.raw.value, <<"status", "startTimestamp">>)
                    /\ resp.detail.completionTime =
                          TextAt(resp.raw.value, <<"status", "completionTimestamp">>)
                    /\ resp.detail.backupName =
                          TextAt(resp.raw.value, <<"spec", "backupName">>)
                    /\ At(resp.raw.value, <<"status", "progress", "totalItems">>).t # "num"
                          => resp.detail.progress.totalItems = 0
                    /\ At(resp.raw.value, <<"status", "progress", "itemsRestored">>).t # "num"
                          => resp.detail.progress.itemsRestored = 0
                    /\ resp.detail.includedNamespaces =
                          TextsAt(resp.raw.value, <<"spec", "includedNamespaces">>)
              /\ resp.op = "parseScheduleDetail" =>
                    /\ resp.detail.schedule = TextAt(resp.raw.value, <<"spec", "schedule">>)
                    /\ resp.detail.lastBackupTime =
                          TextAt(resp.raw.value, <<"status", "lastBackupTime">>)
                    /\ At(resp.raw.value, <<"status", "validationErrors">>).t # "arr"
                          => resp.detail.validationError = sEmpty

C25_Witness ==
    /\ resp.op = "parseBackupDetail"
    /\ resp.err = "none"
    /\ At(resp.raw.value, <<"metadata">>).t = "num"
    /\ At(resp.raw.value, <<"status", "phase">>).t = "num"
    /\ At(resp.raw.value, <<"status", "progress">>).t = "str"
    /\ Len(At(resp.raw.value, <<"spec", "includedNamespaces">>).a) = 4
    /\ resp.detail.objectMeta.name = sEmpty
    /\ resp.detail.phase = sEmpty
    /\ resp.detail.totalItems = 0
    /\ resp.detail.includedNamespaces = <<sA, sB>>

\* C26: in every detail a parser returns Status equals Phase; a backup
\* detail has TotalItems and ItemsBackedUp equal to those of its Progress, a
\* restore detail TotalItems and ItemsRestored equal to those of its
\* Progress.
C26_DetailMirrorsPhaseAndProgress ==
    (IsDetail /\ resp.err = "none") =>
        /\ resp.detail.status = resp.detail.phase
        /\ resp.op = "parseBackupDetail" =>
              /\ resp.detail.totalItems = resp.detail.progress.totalItems
              /\ resp.detail.itemsBackedUp = resp.detail.progress.itemsBackedUp
        /\ resp.op = "parseRestoreDetail" =>
              /\ resp.detail.totalItems = resp.detail.progress.totalItems
              /\ resp.detail.itemsRestored = resp.detail.progress.itemsRestored

C26_Witness ==
    /\ resp.op = "parseRestoreDetail"
    /\ resp.err = "none"
    /\ resp.detail.status = sCompleted
    /\ resp.detail.phase = sCompleted
    /\ resp.detail.totalItems = 3
    /\ resp.detail.progress.totalItems = 3
    /\ resp.detail.itemsRestored = 2
    /\ resp.detail.progress.itemsRestored = 2

\* C27: the Status counters of a toBackupList result count the records of
\* the returned page, each under its own classification, so they add up to
\* the length of Backups; when the page holds fewer records than pass the
\* filter, they add up to less than ListMeta.TotalItems.
StatusSum(list) ==
    list.status.running + list.status.pending + list.status.succeeded + list.status.failed

OnPage(list, st) ==
    Cardinality({i \in 1..Len(list.backups) : list.backups[i].backupStatus.status = st})

C27_StatusOverPageOnly ==
    IsBackupList =>
        /\ StatusSum(resp.list) = Len(resp.list.backups)
        /\ resp.list.status.failed = OnPage(resp.list, BackupStatusFailed)
        /\ resp.list.status.succeeded = OnPage(resp.list, BackupStatusCompleted)
        /\ resp.list.status.running = OnPage(resp.list, BackupStatusInProgress)
        /\ resp.list.status.pending = OnPage(resp.list, BackupStatusNew)
        /\ Len(resp.list.backups) < Cardinality(Matching(backups, resp.now, query.filter))
              => StatusSum(resp.list) < resp.list.listMeta.totalItems

C27_Witness ==
    /\ IsBackupList
    /\ query.itemsPerPage = 2
    /\ resp.page = 2
    /\ query.filter = <<>>
    /\ Len(backups) = 3
    /\ resp.list.listMeta.totalItems = 3
    /\ Len(resp.list.backups) = 1
    /\ StatusSum(resp.list) = 1
    /\ resp.list.status.failed = 1

\* C28: getBackupStatus and getBackupStatusFromSingle return the same Status
\* and the same Message for every record, so each counter of the summary is
\* the number of records whose shown status is the counter's.
Shown(std, st) == Cardinality({i \in 1..Len(std) : getBackupStatus(std[i]).status = st})

C28_ClassifiersAgree ==
    /\ resp.op = "getBackupStatus" =>
          \A i \in 1..Len(backups) :
              /\ resp.each[i].status = getBackupStatusFromSingle(backups[i]).status
              /\ resp.each[i].message = getBackupStatusFromSingle(backups[i]).message
    /\ resp.op = "getBackupStatusFromSingle" =>
          \A i \in 1..Len(backups) :
              /\ resp.each[i].status = getBackupStatus(backups[i]).status
              /\ resp.each[i].message = getBackupStatus(backups[i]).message
    /\ resp.op = "getBackupListStatus" =>
          /\ resp.status.failed = Shown(backups, BackupStatusFailed)
          /\ resp.status.succeeded = Shown(backups, BackupStatusCompleted)
          /\ resp.status.running = Shown(backups, BackupStatusInProgress)
          /\ resp.status.pending = Shown(backups, BackupStatusNew)

C28_Witness ==
    /\ resp.op = "getBackupStatusFromSingle"
    /\ Len(backups) = 3
    /\ backups[1].phase = Found(sFailed)
    /\ backups[1].failureReason = Found(sX)
    /\ backups[2].phase = NotFound
    /\ backups[3].phase = Found(sX)
    /\ resp.each[1] = [status |-> BackupStatusFailed, message |-> sX]
    /\ resp.each[1] = getBackupStatus(backups[1])
    /\ resp.each[3] = getBackupStatus(backups[3])

\* C29: GetProperty answers the same for the same record and property in
\* every call: two calls of toBackupList on the same backups read the same
\* value from every cell and put the filtered records in the same order,
\* also when the sort is by creation time and records have none that parses.
C29_GetPropertyDeterministic ==
    \A k, l \in 1..Len(fetched) :
        /\ \A i \in 1..Len(backups) :
              \A p \in PropertyNames :
                 GetProperty(Cell(backups[i], fetched[k].now[i]), p)
                    = GetProperty(Cell(backups[i], fetched[l].now[i]), p)
        /\ Ranked(backups, fetched[k].now, query.filter, query.sort)
              = Ranked(backups, fetched[l].now, query.filter, query.sort)

\* C30: FromCells(ToCells(x)) is x, record for record; the cells the
\* selection returns are backup cells of the input, so every record of the
\* page is an input record, no record is on the page more often than in the
\* input, and FromCells finds a BackupCell in every place.
Occurrences(s, b) == Cardinality({i \in 1..Len(s) : s[i] = b})

C30_CellsRoundTrip ==
    IsBackupList =>
        LET cells == ToCells(backups, resp.now)
            sel == GenericDataSelectWithFilter(cells, QueryOf(resp.page))
            page == FromCells(sel.cells)
        IN  /\ Len(cells) = Len(backups)
            /\ FromCells(cells) = backups
            /\ \A k \in 1..Len(sel.cells) :
                  /\ sel.cells[k].type = "BackupCell"
                  /\ \E i \in 1..Len(cells) : sel.cells[k] = cells[i]
            /\ \A k \in 1..Len(page) : Occurrences(page, page[k]) <= Occurrences(backups, page[k])
            /\ Len(resp.list.backups) = Len(page)
            /\ \A k \in 1..Len(page) : resp.list.backups[k] = toBackup(page[k])

C30_Witness ==
    /\ IsBackupList
    /\ backups = <<B2, B4, B1>>
    /\ query.filter = <<>>
    /\ query.sort = <<SortBy(NameProperty, FALSE)>>
    /\ query.itemsPerPage = 2
    /\ resp.page = 1
    /\ FromCells(ToCells(backups, resp.now)) = <<B2, B4, B1>>
    /\ Uids(resp.list) = <<1, 2>>

====
